---- MODULE Spec2Model ----
(***************************************************************************)
(* Model of the photo-booth compositing engine                             *)
(* (backend/services/compose.py).                                          *)
(*                                                                         *)
(* Numbers.  Python floats are modelled as exact rationals [num, den]      *)
(* (den > 0); int() is truncation toward zero and // is floor division.    *)
(* int(n * scale) is computed as binary64 computes it (IntOfProduct): the   *)
(* product can fall just below an integer that the exact product reaches.  *)
(* Images are modelled by their size; only crop_to_alpha_bbox looks at     *)
(* pixels, so only there an image carries a pixel grid.  The canvas is     *)
(* modelled by the ordered log of paint operations applied to it.          *)
(* Optional[T] is the empty sequence (None) or a one-element sequence.     *)
(***************************************************************************)
EXTENDS Integers, Sequences, FiniteSets, TLC

VARIABLES
    template_meta,    \* TemplateMetadata given to compose_final
    template_file,    \* what template_path names: "unset", "absent", "ok", "corrupt"
    stickers,         \* the request's list of {"image", "landmarks"}
    processing_mode,  \* "sticker" or "frame"
    user_position,    \* Optional dict parsed from the editor's photo_position
    pc,               \* position of the compose_final run
    i,                \* loop index of compose_final's slot loop (0-based)
    sorted_slots,     \* compose_final's local sorted_slots
    canvas,           \* paint operations applied to the canvas, in order
    calls,            \* helper calls made by the run, in order
    fn,               \* pure function under check: "none", "fit", "place", "anchor", "crop"
    args,             \* its arguments
    ret,              \* its result (None until the function has been applied)
    request,          \* the form fields and files of one generate request
    gpc,              \* position of the generate_composite handler
    response,         \* Optional GenerateResponse of the handler
    parked,           \* Optional frame of a second compose_final run that is not running now
    stats_file,       \* data/stats.json: missing, invalid (empty or partial), or its stats
    workers           \* per worker process: its StatsService instance and what it is doing

vars == <<template_meta, template_file, stickers, processing_mode, user_position,
          pc, i, sorted_slots, canvas, calls, fn, args, ret,
          request, gpc, response, parked, stats_file, workers>>

runVars == <<template_meta, template_file, stickers, processing_mode, user_position,
             pc, i, sorted_slots, canvas, calls>>

genVars == <<request, gpc, response>>

statsVars == <<stats_file, workers>>

(***************************************************************************)
(* Optional values and exact rationals                                     *)
(***************************************************************************)
None == <<>>
Some(v) == <<v>>
IsSome(o) == Len(o) = 1
Get(o) == o[1]

Q(n, d) == [num |-> n, den |-> d]
QInt(n) == Q(n, 1)
QLe(a, b) == a.num * b.den <= b.num * a.den
QLt(a, b) == a.num * b.den < b.num * a.den
QEq(a, b) == a.num * b.den = b.num * a.den
QMul(a, b) == Q(a.num * b.num, a.den * b.den)
\* a / b for b > 0
QDiv(a, b) == Q(a.num * b.den, a.den * b.num)
\* Python max(a, b): b only when b > a
QMax(a, b) == IF QLt(a, b) THEN b ELSE a
\* Python min(a, b): b only when b < a
QMin(a, b) == IF QLt(b, a) THEN b ELSE a
\* Python int(): truncation toward zero
Trunc(q) == IF q.num >= 0 THEN q.num \div q.den ELSE -((-q.num) \div q.den)
\* Python truthiness of an Optional[float]
\* ---- binary64 ----
\* A float is modelled by the exact rational it was computed from and stands
\* for the binary64 nearest to it.  Where a product is handed to int(), the
\* rounding of the factor and of the product decides the result when the exact
\* product is an integer m: the binary64 product is m or the next value below.
RECURSIVE GCD(_, _)
GCD(a, b) == IF b = 0 THEN a ELSE GCD(b, a % b)

RECURSIVE Pow2(_)
Pow2(k) == IF k = 0 THEN 1 ELSE 2 * Pow2(k - 1)

\* 2^k modulo a
RECURSIVE Pow2Mod(_, _)
Pow2Mod(k, a) == IF k = 0 THEN 1 % a ELSE (2 * Pow2Mod(k - 1, a)) % a

\* the binary exponent of b / a (b, a > 0): 2^e <= b / a < 2^(e + 1)
RECURSIVE Exponent(_, _)
Exponent(b, a) ==
    IF b >= 2 * a THEN Exponent(b, 2 * a) + 1
    ELSE IF b < a THEN Exponent(2 * b, a) - 1
    ELSE 0

\* n * s falls below the integer n * q in binary64, s the binary64 nearest to
\* q = b / a > 0 and n > 0: s = (b * 2^k - r) / (a * 2^k) with k = 52 - e when
\* the remainder r of b * 2^k by a is below a / 2 (s was rounded down), and the
\* product rounds to the value below m when n * (q - s) exceeds half the
\* spacing of binary64 below m (a tie rounds to m, whose significand is even)
ProductBelow(n, q) ==
    LET g == GCD(q.num, q.den)
        b == q.num \div g
        a == q.den \div g
        m == (n * b) \div a
        e == Exponent(b, a)
        r == ((b % a) * Pow2Mod(52 - e, a)) % a
        em == Exponent(m, 1)
        pw == IF m = Pow2(em) THEN 1 ELSE 0
    IN  /\ (n * b) % a = 0
        /\ m >= 1
        /\ r # 0 /\ 2 * r < a
        /\ n * r * Pow2(1 + pw + (IF e >= 0 THEN e ELSE 0))
              > a * Pow2(em + (IF e < 0 THEN -e ELSE 0))

\* int(n * s) for an int n and the binary64 s nearest to q
IntOfProduct(n, q) ==
    LET k == IF n < 0 THEN -n ELSE n
        exact == (k * q.num) \div q.den
        v == IF ProductBelow(k, q) THEN exact - 1 ELSE exact
    IN  IF n = 0 \/ q.num <= 0 THEN Trunc(QMul(QInt(n), q))
        ELSE IF n < 0 THEN -v ELSE v

Truthy(o) == IsSome(o) /\ Get(o).num # 0

Max(a, b) == IF a < b THEN b ELSE a
Min(a, b) == IF b < a THEN b ELSE a

(***************************************************************************)
(* Literals of compose.py                                                  *)
(***************************************************************************)
ConfidenceFloor == Q(1, 2)        \* landmarks.confidence > 0.5
DefaultTargetY == Q(30, 100)      \* int(slot.height * 0.30)
OverflowLeft == Q(2, 10)          \* int(sticker_w * 0.2)
OverflowRight == Q(8, 10)         \* int(sticker_w * 0.8)
OverflowTop == Q(1, 10)           \* int(sticker_h * 0.1)
OverflowBottom == Q(5, 10)        \* int(sticker_h * 0.5)
BottomPadding == Q(2, 100)        \* int(slot.height * 0.02)
TargetFillRatio == Q(90, 100)     \* target_fill_ratio = 0.90
DefaultEditorWidth == 400         \* user_position.get('editorWidth', 400)

(***************************************************************************)
(* resolve_anchor_to_pixels(val, dimension_size)                           *)
(***************************************************************************)
\* mutant: the ratio range excludes its end points
resolve_anchor_to_pixels_open(val, dimension_size) ==
    IF ~IsSome(val) THEN None
    ELSE IF QLt(QInt(0), Get(val)) /\ QLt(Get(val), QInt(1))
         THEN Some(Trunc(QMul(Get(val), QInt(dimension_size))))
         ELSE Some(Trunc(Get(val)))

resolve_anchor_to_pixels(val, dimension_size) ==
    IF ~IsSome(val) THEN None
    ELSE IF QLe(QInt(0), Get(val)) /\ QLe(Get(val), QInt(1))
         THEN Some(Trunc(QMul(Get(val), QInt(dimension_size))))
         ELSE Some(Trunc(Get(val)))

(***************************************************************************)
(* Image.resize(size): Pillow rejects a target with a side below 1         *)
(* ("height and width must be > 0").                                       *)
(***************************************************************************)
ResizeOk(new_w, new_h) == new_w >= 1 /\ new_h >= 1

(***************************************************************************)
(* fit_sticker_to_slot(sticker, slot, fit_mode, face_height)               *)
(* sticker is a size [w, h]; face_height is Optional[int].                 *)
(* Result: branch taken, scale applied, the resize target and whether the  *)
(* resize succeeds (raised = TRUE models the ValueError of resize).        *)
(***************************************************************************)
\* mutant: the zoom clamp is forgotten
ClampZoom_unclamped(slot, scale) == scale

ClampZoom(slot, scale) == QMax(slot.min_zoom, QMin(slot.max_zoom, scale))

FaceScale(slot, face_height) ==
    ClampZoom(slot,
              QDiv(QMul(QInt(slot.height), Get(slot.desired_face_ratio)),
                   QInt(Get(face_height))))

\* mutant: the sticker is scaled to fit inside the slot in both dimensions
ContainScale_inside(sticker, slot) ==
    ClampZoom(slot, QMul(TargetFillRatio,
                         QMin(Q(slot.width, sticker.w), Q(slot.height, sticker.h))))

ContainScale(sticker, slot) ==
    ClampZoom(slot, QDiv(QMul(QInt(slot.height), TargetFillRatio), QInt(sticker.h)))

CoverScale(sticker, slot) ==
    QMax(Q(slot.width, sticker.w), Q(slot.height, sticker.h))

Resized(sticker, branch, scale) ==
    LET new_w == IntOfProduct(sticker.w, scale)
        new_h == IntOfProduct(sticker.h, scale)
    IN  [branch |-> branch, scale |-> scale, w |-> new_w, h |-> new_h,
         raised |-> ~ResizeOk(new_w, new_h)]

UseFaceBranch(slot, face_height) ==
    (IsSome(face_height) /\ Get(face_height) # 0) /\ Truthy(slot.desired_face_ratio)

\* mutant: the face branch is tried only when the caller asked for "contain"
fit_sticker_to_slot_coverfirst(sticker, slot, fit_mode, face_height) ==
    IF sticker.w = 0 \/ sticker.h = 0
    THEN [branch |-> "degenerate", scale |-> QInt(1), w |-> sticker.w, h |-> sticker.h,
          raised |-> FALSE]
    ELSE IF fit_mode = "contain" /\ UseFaceBranch(slot, face_height)
    THEN Resized(sticker, "face", FaceScale(slot, face_height))
    ELSE IF fit_mode = "contain"
    THEN Resized(sticker, "contain", ContainScale(sticker, slot))
    ELSE Resized(sticker, "cover", CoverScale(sticker, slot))

fit_sticker_to_slot(sticker, slot, fit_mode, face_height) ==
    IF sticker.w = 0 \/ sticker.h = 0
    THEN [branch |-> "degenerate", scale |-> QInt(1), w |-> sticker.w, h |-> sticker.h,
          raised |-> FALSE]
    ELSE IF UseFaceBranch(slot, face_height)
    THEN Resized(sticker, "face", FaceScale(slot, face_height))
    ELSE IF fit_mode = "contain"
    THEN Resized(sticker, "contain", ContainScale(sticker, slot))
    ELSE Resized(sticker, "cover", CoverScale(sticker, slot))

(***************************************************************************)
(* calculate_placement(sticker, slot, anchor_mode, landmarks)              *)
(* sticker is the scaled size [w, h]; landmarks is Optional[FaceLandmarks].*)
(***************************************************************************)
\* mutant: a confidence of exactly 0.5 counts as usable
FaceUsable_inclusive(landmarks) ==
    IsSome(landmarks) /\ QLe(ConfidenceFloor, Get(landmarks).confidence)

FaceUsable(landmarks) ==
    IsSome(landmarks) /\ QLt(ConfidenceFloor, Get(landmarks).confidence)

\* mutant: the clamp is applied in the other order, so the upper bound wins
ClampInto_upperwins(lo, hi, v) == Min(hi, Max(lo, v))

ClampInto(lo, hi, v) == Max(lo, Min(hi, v))

\* mutant: the face centre is anchored whatever the anchor_mode
FacePlacement_centeronly(sticker, slot, anchor_mode, lm) ==
    LET rx == resolve_anchor_to_pixels(slot.anchor_target_x, slot.width)
        ry == resolve_anchor_to_pixels(slot.anchor_target_y, slot.height)
        target_x == IF IsSome(rx) THEN Get(rx) ELSE slot.width \div 2
        target_y == IF IsSome(ry) THEN Get(ry)
                    ELSE Trunc(QMul(QInt(slot.height), DefaultTargetY))
        face_x == lm.center_x
        face_y == lm.center_y
        raw_x == slot.x + target_x - face_x
        raw_y == slot.y + target_y - face_y
        min_x == slot.x - Trunc(QMul(QInt(sticker.w), OverflowLeft))
        max_x == slot.x + slot.width - Trunc(QMul(QInt(sticker.w), OverflowRight))
        min_y == slot.y - Trunc(QMul(QInt(sticker.h), OverflowTop))
        max_y == slot.y + slot.height - Trunc(QMul(QInt(sticker.h), OverflowBottom))
    IN  [branch |-> "face", x |-> ClampInto(min_x, max_x, raw_x),
         y |-> ClampInto(min_y, max_y, raw_y),
         target |-> <<target_x, target_y>>, raw |-> <<raw_x, raw_y>>]

FacePlacement(sticker, slot, anchor_mode, lm) ==
    LET rx == resolve_anchor_to_pixels(slot.anchor_target_x, slot.width)
        ry == resolve_anchor_to_pixels(slot.anchor_target_y, slot.height)
        target_x == IF IsSome(rx) THEN Get(rx) ELSE slot.width \div 2
        target_y == IF IsSome(ry) THEN Get(ry)
                    ELSE Trunc(QMul(QInt(slot.height), DefaultTargetY))
        face_x == lm.center_x
        face_y == IF anchor_mode = "eyes" THEN lm.eye_y ELSE lm.center_y
        raw_x == slot.x + target_x - face_x
        raw_y == slot.y + target_y - face_y
        min_x == slot.x - Trunc(QMul(QInt(sticker.w), OverflowLeft))
        max_x == slot.x + slot.width - Trunc(QMul(QInt(sticker.w), OverflowRight))
        min_y == slot.y - Trunc(QMul(QInt(sticker.h), OverflowTop))
        max_y == slot.y + slot.height - Trunc(QMul(QInt(sticker.h), OverflowBottom))
    IN  [branch |-> "face", x |-> ClampInto(min_x, max_x, raw_x),
         y |-> ClampInto(min_y, max_y, raw_y),
         target |-> <<target_x, target_y>>, raw |-> <<raw_x, raw_y>>]

\* mutant: the floor at slot.y is forgotten
BottomCenterPlacement_unfloored(sticker, slot) ==
    LET final_x == slot.x + ((slot.width - sticker.w) \div 2)
        bottom_padding == Trunc(QMul(QInt(slot.height), BottomPadding))
        final_y == slot.y + slot.height - sticker.h - bottom_padding
    IN  [branch |-> "bottom", x |-> final_x, y |-> final_y,
         target |-> <<0, 0>>, raw |-> <<final_x, final_y>>]

\* mutant: the half difference is truncated toward zero
BottomCenterPlacement_towardzero(sticker, slot) ==
    LET final_x == slot.x + Trunc(Q(slot.width - sticker.w, 2))
        bottom_padding == Trunc(QMul(QInt(slot.height), BottomPadding))
        final_y == slot.y + slot.height - sticker.h - bottom_padding
    IN  [branch |-> "bottom", x |-> final_x, y |-> Max(slot.y, final_y),
         target |-> <<0, 0>>, raw |-> <<final_x, final_y>>]

BottomCenterPlacement(sticker, slot) ==
    LET final_x == slot.x + ((slot.width - sticker.w) \div 2)
        bottom_padding == Trunc(QMul(QInt(slot.height), BottomPadding))
        final_y == slot.y + slot.height - sticker.h - bottom_padding
    IN  [branch |-> "bottom", x |-> final_x, y |-> Max(slot.y, final_y),
         target |-> <<0, 0>>, raw |-> <<final_x, final_y>>]

calculate_placement(sticker, slot, anchor_mode, landmarks) ==
    IF FaceUsable(landmarks)
    THEN FacePlacement(sticker, slot, anchor_mode, Get(landmarks))
    ELSE BottomCenterPlacement(sticker, slot)

(***************************************************************************)
(* crop_to_alpha_bbox(sticker)                                             *)
(* An image here is [mode, w, h, px] with px a function from the pixel     *)
(* coordinates (0..w-1) \X (0..h-1) to pixels [c, a] (colour, alpha).      *)
(***************************************************************************)
Coords(w, h) == (0 .. (w - 1)) \X (0 .. (h - 1))

\* sticker.convert("RGBA"): an image without alpha channel becomes opaque
ConvertRGBA(img) ==
    IF img.mode = "RGBA" THEN img
    ELSE [mode |-> "RGBA", w |-> img.w, h |-> img.h,
          px |-> [p \in Coords(img.w, img.h) |-> [c |-> img.px[p].c, a |-> 1]]]

\* alpha.getbbox(): None, or (left, upper, right, lower) of the non-zero
\* alpha values, right and lower exclusive
MinOf(S) == CHOOSE m \in S : \A n \in S : m <= n
MaxOf(S) == CHOOSE m \in S : \A n \in S : n <= m

\* mutant: right and lower are taken as the last visible column and row
GetBBox_inclusive(img) ==
    LET solid == {p \in Coords(img.w, img.h) : img.px[p].a # 0}
        xs == {p[1] : p \in solid}
        ys == {p[2] : p \in solid}
    IN  IF solid = {} THEN None
        ELSE Some(<<MinOf(xs), MinOf(ys), MaxOf(xs), MaxOf(ys)>>)

GetBBox(img) ==
    LET solid == {p \in Coords(img.w, img.h) : img.px[p].a # 0}
        xs == {p[1] : p \in solid}
        ys == {p[2] : p \in solid}
    IN  IF solid = {} THEN None
        ELSE Some(<<MinOf(xs), MinOf(ys), MaxOf(xs) + 1, MaxOf(ys) + 1>>)

\* sticker.crop(bbox)
Crop(img, bbox) ==
    LET cw == bbox[3] - bbox[1]
        ch == bbox[4] - bbox[2]
    IN  [mode |-> img.mode, w |-> cw, h |-> ch,
         px |-> [p \in Coords(cw, ch) |-> img.px[<<p[1] + bbox[1], p[2] + bbox[2]>>]]]

\* Image.new("RGBA", (1, 1), (0, 0, 0, 0))
EmptyPixelImage ==
    [mode |-> "RGBA", w |-> 1, h |-> 1, px |-> [p \in Coords(1, 1) |-> [c |-> 0, a |-> 0]]]

crop_to_alpha_bbox(sticker) ==
    LET rgba == ConvertRGBA(sticker)
        bbox == GetBBox(rgba)
    IN  IF IsSome(bbox) THEN Crop(rgba, Get(bbox)) ELSE EmptyPixelImage

(***************************************************************************)
(* compose_final: one run, as a state machine                              *)
(***************************************************************************)
\* the paint operations on the canvas
TemplatePaint == [op |-> "template", slot_id |-> 0, sticker |-> 0,
                  x |-> 0, y |-> 0, w |-> 0, h |-> 0]
PastePaint(slot, k, x, y, w, h) ==
    [op |-> "paste", slot_id |-> slot.slot_id, sticker |-> k,
     x |-> x, y |-> y, w |-> w, h |-> h]

\* a helper call of the run: which helper, for which loop index, and what it
\* was given or returned
Call(f, k, info) == [f |-> f, k |-> k, info |-> info]

\* template_path and os.path.exists(template_path)
TemplateExists == template_file \in {"ok", "corrupt"}

\* line 271: the template is placed first
UnderlayWanted == template_meta.composite_mode = "background" /\ TemplateExists

\* mutant: the overlay step tests for the wrong composite mode
OverlayWanted_background == template_meta.composite_mode = "background" /\ TemplateExists

\* line 364: the template is placed on top
OverlayWanted == template_meta.composite_mode = "overlay" /\ TemplateExists

\* sorted(template_meta.slots, key=lambda s: s.z_index): a stable insertion sort
RECURSIVE InsertByZ(_, _)
InsertByZ(slot, sorted) ==
    IF sorted = <<>> THEN <<slot>>
    ELSE IF Head(sorted).z_index <= slot.z_index
         THEN <<Head(sorted)>> \o InsertByZ(slot, Tail(sorted))
         ELSE <<slot>> \o sorted

\* mutant: the slots are processed in input order
SortedByZ_unsorted(slots) == slots

RECURSIVE SortedByZ(_)
SortedByZ(slots) ==
    IF slots = <<>> THEN <<>>
    ELSE InsertByZ(slots[Len(slots)], SortedByZ(SubSeq(slots, 1, Len(slots) - 1)))

\* mutant: the list is sorted in place (template_meta.slots.sort(key=...))
SlotsAfterSort_inplace(slots) == SortedByZ(slots)

\* sorted() returns a new list: template_meta.slots is left as it was
SlotsAfterSort(slots) == slots

\* fit_mode = "cover" if processing_mode == "frame" else "contain"
FitMode == IF processing_mode = "frame" THEN "cover" ELSE "contain"

\* landmarks rescaled by scale_factor = sticker_scaled.width / img_w_orig
ScaleFactor(scaled_w, img_w_orig) ==
    IF img_w_orig > 0 THEN Q(scaled_w, img_w_orig) ELSE QInt(1)

\* mutant: the face height is handed on as detected
ScaleLandmarks_facekept(landmarks, scale_factor) ==
    IF ~IsSome(landmarks) THEN None
    ELSE LET lm == Get(landmarks)
         IN  Some([center_x |-> IntOfProduct(lm.center_x, scale_factor),
                   center_y |-> IntOfProduct(lm.center_y, scale_factor),
                   eye_y |-> IntOfProduct(lm.eye_y, scale_factor),
                   face_height |-> lm.face_height,
                   confidence |-> lm.confidence])

ScaleLandmarks(landmarks, scale_factor) ==
    IF ~IsSome(landmarks) THEN None
    ELSE LET lm == Get(landmarks)
         IN  Some([center_x |-> IntOfProduct(lm.center_x, scale_factor),
                   center_y |-> IntOfProduct(lm.center_y, scale_factor),
                   eye_y |-> IntOfProduct(lm.eye_y, scale_factor),
                   face_height |-> IntOfProduct(lm.face_height, scale_factor),
                   confidence |-> lm.confidence])

\* Python truthiness of user_position, and whether it has .get
OverrideGiven == user_position.kind \in {"dict", "other"}

\* the manual override of compose_final (lines 327-344) on the fitted size
UserScale == IF IsSome(user_position.scale) THEN Get(user_position.scale) ELSE QInt(1)
UserX == IF IsSome(user_position.x) THEN Get(user_position.x) ELSE 0
UserY == IF IsSome(user_position.y) THEN Get(user_position.y) ELSE 0
EditorWidth ==
    IF IsSome(user_position.editorWidth) THEN Get(user_position.editorWidth)
    ELSE DefaultEditorWidth

\* mutant: the editor offset is added without the canvas/editor scale factor
OverridePlacement_editorpixels(fitted, slot) ==
    LET rescale == ~QEq(UserScale, QInt(1))
        new_w == IF rescale THEN IntOfProduct(fitted.w, UserScale) ELSE fitted.w
        new_h == IF rescale THEN IntOfProduct(fitted.h, UserScale) ELSE fitted.h
        base_x == slot.x + ((slot.width - new_w) \div 2)
        base_y == slot.y + ((slot.height - new_h) \div 2)
    IN  IF user_position.kind # "dict"
        THEN [raised |-> TRUE, x |-> 0, y |-> 0, w |-> fitted.w, h |-> fitted.h]
        ELSE IF rescale /\ ~ResizeOk(new_w, new_h)
        THEN [raised |-> TRUE, x |-> 0, y |-> 0, w |-> new_w, h |-> new_h]
        ELSE IF EditorWidth = 0
        THEN [raised |-> TRUE, x |-> 0, y |-> 0, w |-> new_w, h |-> new_h]
        ELSE [raised |-> FALSE, x |-> base_x + UserX, y |-> base_y + UserY,
              w |-> new_w, h |-> new_h]

OverridePlacement(fitted, slot) ==
    LET rescale == ~QEq(UserScale, QInt(1))
        new_w == IF rescale THEN IntOfProduct(fitted.w, UserScale) ELSE fitted.w
        new_h == IF rescale THEN IntOfProduct(fitted.h, UserScale) ELSE fitted.h
        base_x == slot.x + ((slot.width - new_w) \div 2)
        base_y == slot.y + ((slot.height - new_h) \div 2)
    IN  IF user_position.kind # "dict"
        THEN [raised |-> TRUE, x |-> 0, y |-> 0, w |-> fitted.w, h |-> fitted.h]
        ELSE IF rescale /\ ~ResizeOk(new_w, new_h)
        THEN [raised |-> TRUE, x |-> 0, y |-> 0, w |-> new_w, h |-> new_h]
        ELSE IF EditorWidth = 0
        THEN [raised |-> TRUE, x |-> 0, y |-> 0, w |-> new_w, h |-> new_h]
        ELSE [raised |-> FALSE,
              x |-> base_x + IntOfProduct(UserX, Q(template_meta.width, EditorWidth)),
              y |-> base_y + IntOfProduct(UserY, Q(template_meta.width, EditorWidth)),
              w |-> new_w, h |-> new_h]

\* lines 268-280: canvas, template underlay for "background", sort, fit_mode
Begin ==
    /\ pc = "init"
    /\ IF UnderlayWanted
       THEN IF template_file = "corrupt"
            THEN /\ pc' = "raised"
                 /\ canvas' = <<>>
                 /\ UNCHANGED <<template_meta, sorted_slots, i>>
            ELSE /\ pc' = "slots"
                 /\ canvas' = <<TemplatePaint>>
                 /\ sorted_slots' = SortedByZ(template_meta.slots)
                 /\ template_meta' = [template_meta EXCEPT !.slots = SlotsAfterSort(@)]
                 /\ i' = 0
       ELSE /\ pc' = "slots"
            /\ canvas' = <<>>
            /\ sorted_slots' = SortedByZ(template_meta.slots)
            /\ template_meta' = [template_meta EXCEPT !.slots = SlotsAfterSort(@)]
            /\ i' = 0
    /\ UNCHANGED <<template_file, stickers, processing_mode,
                   user_position, calls, fn, args, ret, statsVars, genVars, parked>>

\* lines 282-361: one iteration of the slot loop
SlotStep ==
    /\ pc = "slots"
    /\ i < Len(sorted_slots)
    /\ i < Len(stickers)
    /\ LET slot == sorted_slots[i + 1]
           sticker_img == stickers[i + 1].image
           landmarks == stickers[i + 1].landmarks
           face_h == IF IsSome(landmarks) THEN Some(Get(landmarks).face_height) ELSE None
           fitted == fit_sticker_to_slot(sticker_img, slot, FitMode, face_h)
           landmarks_scaled ==
               ScaleLandmarks(landmarks, ScaleFactor(fitted.w, sticker_img.w))
           manual == OverridePlacement(fitted, slot)
           auto == calculate_placement(fitted, slot, template_meta.anchor_mode,
                                       landmarks_scaled)
       IN  IF fitted.raised
           THEN /\ pc' = "raised"
                /\ calls' = Append(calls, Call("fit", i, fitted))
                /\ UNCHANGED <<canvas, i>>
           ELSE IF OverrideGiven
           THEN IF manual.raised
                THEN /\ pc' = "raised"
                     /\ calls' = Append(calls, Call("fit", i, fitted))
                     /\ UNCHANGED <<canvas, i>>
                ELSE /\ canvas' = Append(canvas, PastePaint(slot, i + 1, manual.x,
                                                            manual.y, manual.w, manual.h))
                     /\ calls' = Append(calls, Call("fit", i, fitted))
                     /\ i' = i + 1
                     /\ pc' = "slots"
           ELSE /\ canvas' = Append(canvas, PastePaint(slot, i + 1, auto.x, auto.y,
                                                       fitted.w, fitted.h))
                /\ calls' = calls \o
                       <<Call("fit", i, fitted),
                         Call("place", i, [landmarks |-> landmarks_scaled, placed |-> auto])>>
                /\ i' = i + 1
                /\ pc' = "slots"
    /\ UNCHANGED <<template_meta, template_file, stickers, processing_mode,
                   user_position, sorted_slots, fn, args, ret, statsVars, genVars, parked>>

\* lines 283, 363-370: the loop ends, template overlay for "overlay", return
Finish ==
    /\ pc = "slots"
    /\ (i >= Len(sorted_slots) \/ i >= Len(stickers))
    /\ IF OverlayWanted
       THEN IF template_file = "corrupt"
            THEN /\ pc' = "raised"
                 /\ UNCHANGED canvas
            ELSE /\ pc' = "done"
                 /\ canvas' = Append(canvas, TemplatePaint)
       ELSE /\ pc' = "done"
            /\ UNCHANGED canvas
    /\ UNCHANGED <<template_meta, template_file, stickers, processing_mode,
                   user_position, i, sorted_slots, calls, fn, args, ret, statsVars, genVars, parked>>

Next == Begin \/ SlotStep \/ Finish

(***************************************************************************)
(* Two compose_final runs on the one compose_service (line 372).  Each     *)
(* call has its own frame of arguments and locals; ComposeService has no   *)
(* attributes.  The run that is not executing is parked, and the scheduler *)
(* may switch between the two before any step.                             *)
(***************************************************************************)
\* the arguments and locals of the executing call
Frame ==
    [template_meta |-> template_meta, template_file |-> template_file,
     stickers |-> stickers, processing_mode |-> processing_mode,
     user_position |-> user_position, pc |-> pc, i |-> i,
     sorted_slots |-> sorted_slots, canvas |-> canvas, calls |-> calls]

\* mutant: sorted_slots is kept on the service object (self.sorted_slots), so
\* the resumed run finds the list the other run left there
ResumedSlots_onservice(frame) == sorted_slots

\* line 278: sorted_slots is a local of the call
ResumedSlots(frame) == frame.sorted_slots

\* the parked run is resumed, the executing run is parked
Switch ==
    /\ IsSome(parked)
    /\ parked' = Some(Frame)
    /\ LET frame == Get(parked)
       IN  /\ template_meta' = frame.template_meta
           /\ template_file' = frame.template_file
           /\ stickers' = frame.stickers
           /\ processing_mode' = frame.processing_mode
           /\ user_position' = frame.user_position
           /\ pc' = frame.pc
           /\ i' = frame.i
           /\ sorted_slots' = ResumedSlots(frame)
           /\ canvas' = frame.canvas
           /\ calls' = frame.calls
    /\ UNCHANGED <<fn, args, ret, statsVars, genVars>>

NextPair == Begin \/ SlotStep \/ Finish \/ Switch

(***************************************************************************)
(* StatsService (services/stats_service.py)                                *)
(* Every worker process imports the module and so constructs its own       *)
(* instance; all of them name the same data/stats.json.  self.stats is     *)
(* [total_generated, by_mode, by_template]; last_updated, a timestamp, is  *)
(* left out.  The file is missing, invalid (json.load raises               *)
(* JSONDecodeError: emptied by open(..., 'w'), or a dump followed by the   *)
(* rest of a longer one) or holds the stats last dumped into it.  Its      *)
(* size is counted in keys: every count here is a single digit, so two     *)
(* dumps differ in length as their numbers of keys do.                     *)
(***************************************************************************)
NumWorkers == 2       \* worker processes
MaxCalls == 2         \* increment_generation calls of one worker

Workers == 1 .. NumWorkers
StatsModes == {"sticker", "frame"}
StatsTemplates == {3, 4}

Stats(total_generated, by_mode, by_template) ==
    [total_generated |-> total_generated, by_mode |-> by_mode, by_template |-> by_template]

\* lines 29-36: _init_defaults
DefaultStats == Stats(0, [m \in {"frame", "sticker"} |-> 0], [t \in {} |-> 0])

StatsFile(state, stats, size) == [state |-> state, stats |-> stats, size |-> size]
Size(stats) == Cardinality(DOMAIN stats.by_mode) + Cardinality(DOMAIN stats.by_template)
Missing == StatsFile("missing", None, 0)
Invalid(size) == StatsFile("invalid", None, size)
Written(stats) == StatsFile("ok", Some(stats), Size(stats))

\* pc: "new" (not constructed), "ready", "saving" (inside _save_stats, the
\* file opened for writing); made: the increment_generation calls so far
Worker(wpc, stats, made) == [pc |-> wpc, stats |-> stats, made |-> made]

\* lines 48-56: if key not in counts: counts[key] = 0; counts[key] += 1
Counted(counts, key) ==
    [k \in DOMAIN counts \cup {key} |->
        (IF k \in DOMAIN counts THEN counts[k] ELSE 0) + (IF k = key THEN 1 ELSE 0)]

\* lines 45-58: the counts of increment_generation, before _save_stats
increment_generation(stats, mode, template_id) ==
    Stats(stats.total_generated + 1, Counted(stats.by_mode, mode),
          Counted(stats.by_template, template_id))

\* no stats are kept: no worker has started
NoStats ==
    /\ stats_file = Missing
    /\ workers = [w \in Workers |-> Worker("new", None, 0)]

\* one process, its instance constructed at import on a fresh data directory
OneWorker ==
    /\ stats_file = Written(DefaultStats)
    /\ workers = [w \in Workers |-> IF w = 1 THEN Worker("ready", Some(DefaultStats), 0)
                                    ELSE Worker("new", None, 0)]

StatsFrame == UNCHANGED <<runVars, fn, args, ret, genVars, parked>>

\* lines 18-27: _load_stats, and the open(..., 'w') of _init_defaults'
\* _save_stats when the file is missing or cannot be decoded
LoadStats(w) ==
    IF stats_file.state # "ok"
    THEN /\ workers' = [workers EXCEPT ![w] = Worker("saving", Some(DefaultStats), @.made)]
         /\ stats_file' = Invalid(0)
    ELSE /\ workers' = [workers EXCEPT ![w] = Worker("ready", stats_file.stats, @.made)]
         /\ UNCHANGED stats_file

\* lines 7-11: __init__ of a worker's instance
Construct(w) ==
    /\ workers[w].pc = "new"
    /\ LoadStats(w)
    /\ StatsFrame

\* generate.py line 227 in worker w: increment_generation up to the
\* open(..., 'w') of _save_stats, which truncates the file
Increment(w) ==
    /\ workers[w].pc = "ready"
    /\ workers[w].made < MaxCalls
    /\ \E mode \in StatsModes, template_id \in StatsTemplates :
          workers' = [workers EXCEPT ![w] =
                         Worker("saving",
                                Some(increment_generation(Get(@.stats), mode, template_id)),
                                @.made + 1)]
    /\ stats_file' = Invalid(0)
    /\ StatsFrame

\* lines 41-43: json.dump and close.  The dump is written from offset 0;
\* when another process has written more since this one opened the file,
\* the rest of that dump stays behind this one.
Dump(w) ==
    /\ workers[w].pc = "saving"
    /\ workers' = [workers EXCEPT ![w].pc = "ready"]
    /\ stats_file' = (IF Size(Get(workers[w].stats)) >= stats_file.size
                      THEN Written(Get(workers[w].stats))
                      ELSE Invalid(stats_file.size))
    /\ StatsFrame

\* lines 60-64: get_stats reloads the file
GetStats(w) ==
    /\ workers[w].pc = "ready"
    /\ LoadStats(w)
    /\ StatsFrame

NextStats == \E w \in Workers : Construct(w) \/ Increment(w) \/ Dump(w) \/ GetStats(w)

(***************************************************************************)
(* Inputs of the checked runs                                              *)
(***************************************************************************)
MaxSlots == 3       \* slots per template
MaxStickers == 3    \* stickers per request
MaxZ == 2           \* z_index values 0..MaxZ

SeqsUpTo(S, n) == UNION {[1 .. k -> S] : k \in 0 .. n}

Slot(id, x, y, width, height, ax, ay, z, ratio, lo, hi) ==
    [slot_id |-> id, x |-> x, y |-> y, width |-> width, height |-> height,
     anchor_target_x |-> ax, anchor_target_y |-> ay, z_index |-> z,
     desired_face_ratio |-> ratio, min_zoom |-> lo, max_zoom |-> hi]

Landmarks(cx, cy, ey, fh, conf) ==
    [center_x |-> cx, center_y |-> cy, eye_y |-> ey, face_height |-> fh,
     confidence |-> conf]

Sticker(w, h, landmarks) == [image |-> [w |-> w, h |-> h], landmarks |-> landmarks]

Template(slots, anchor_mode, width, height, composite_mode) ==
    [slots |-> slots, anchor_mode |-> anchor_mode, width |-> width, height |-> height,
     composite_mode |-> composite_mode]

UserPosition(kind, scale, x, y, editorWidth) ==
    [kind |-> kind, scale |-> scale, x |-> x, y |-> y, editorWidth |-> editorWidth]

\* no override: photo_position absent, or a falsy JSON value such as {}
NoOverride == UserPosition("none", None, None, None, None)

\* slot shapes: defaults of SlotMetadata with a face ratio; explicit anchors
SlotShapes ==
    { [x |-> 10, y |-> 10, width |-> 100, height |-> 100, ax |-> None, ay |-> None,
       ratio |-> Some(Q(35, 100)), lo |-> Q(1, 2), hi |-> QInt(3)],
      [x |-> 0, y |-> 20, width |-> 60, height |-> 80, ax |-> Some(Q(1, 2)),
       ay |-> Some(QInt(30)), ratio |-> None, lo |-> Q(1, 2), hi |-> QInt(3)] }

DefaultShape == CHOOSE g \in SlotShapes : g.width = 100

ShapedSlot(g, id, z) ==
    Slot(id, g.x, g.y, g.width, g.height, g.ax, g.ay, z, g.ratio, g.lo, g.hi)

\* stickers: a detected face, no face, a face at the confidence floor, and a
\* one-pixel-wide cutout
FaceSticker == Sticker(40, 80, Some(Landmarks(20, 30, 25, 10, Q(9, 10))))
PlainSticker == Sticker(30, 60, None)
DoubtfulSticker == Sticker(40, 80, Some(Landmarks(20, 30, 25, 10, Q(1, 2))))
ThinSticker == Sticker(1, 200, None)

CompositeModes == {"overlay", "background", "none"}
TemplateFiles == {"unset", "absent", "ok", "corrupt"}

Overrides ==
    { NoOverride,
      UserPosition("dict", Some(QInt(2)), Some(10), Some(-20), Some(400)),
      UserPosition("dict", None, Some(7), None, None),
      UserPosition("dict", Some(Q(1, 2)), Some(10), Some(10), Some(0)),
      UserPosition("other", None, None, None, None) }

Idle == fn = "none" /\ args = None /\ ret = None

\* no generate request is being handled: compose_final is called directly
NoRequest ==
    [template_id |-> 0, file |-> None, template_file |-> "unset", frame_size |-> None,
     photos |-> <<>>, processing_mode |-> "sticker", photo_position |-> None]
NoGenerate == request = NoRequest /\ gpc = "idle" /\ response = None

\* no second run
Alone == parked = None

RunStart ==
    /\ pc = "init" /\ i = 0 /\ sorted_slots = <<>> /\ canvas = <<>> /\ calls = <<>>

\* layering runs: every z order of up to MaxSlots slots, every sticker count
InitLayering ==
    /\ \E zs \in SeqsUpTo(0 .. MaxZ, MaxSlots), mode \in CompositeModes :
          template_meta =
              Template([k \in 1 .. Len(zs) |-> ShapedSlot(DefaultShape, k, zs[k])],
                       "face_center", 120, 160, mode)
    /\ template_file \in {"absent", "ok"}
    /\ stickers \in SeqsUpTo({FaceSticker, PlainSticker}, MaxStickers)
    /\ processing_mode = "sticker"
    /\ user_position = NoOverride

\* single-slot runs: every sticker kind, processing mode and override
InitSingle ==
    /\ \E g \in SlotShapes, mode \in CompositeModes, anchor_mode \in {"face_center", "eyes"} :
          template_meta = Template(<<ShapedSlot(g, 1, 0)>>, anchor_mode, 120, 160, mode)
    /\ template_file \in TemplateFiles
    /\ stickers \in SeqsUpTo({FaceSticker, PlainSticker, DoubtfulSticker, ThinSticker},
                             MaxStickers - 1)
    /\ processing_mode \in {"sticker", "frame"}
    /\ user_position \in Overrides

\* the concrete scenario of the specification's section 8
ScenarioTemplate ==
    Template(<<Slot(1, 100, 100, 1000, 1000, None, None, 0, Some(Q(35, 100)),
                    Q(1, 2), QInt(3))>>,
             "face_center", 1200, 1600, "overlay")
ScenarioSticker == Sticker(400, 800, Some(Landmarks(200, 300, 250, 100, Q(9, 10))))

InitScenario ==
    /\ template_meta = ScenarioTemplate
    /\ template_file = "unset"
    /\ stickers = <<ScenarioSticker>>
    /\ processing_mode = "sticker"
    /\ user_position = NoOverride

\* two concurrent runs: each with its own template (one or two slots in
\* either z order, either composite mode) and its own stickers
PairZs == {<<0>>, <<0, 1>>, <<1, 0>>}
PairStickers == {<<FaceSticker>>, <<PlainSticker, FaceSticker>>, <<FaceSticker, PlainSticker>>}

PairFrames ==
    { [template_meta |->
           Template([k \in 1 .. Len(zs) |-> ShapedSlot(DefaultShape, k, zs[k])],
                    "face_center", 120, 160, mode),
       template_file |-> "ok", stickers |-> pics, processing_mode |-> "sticker",
       user_position |-> position, pc |-> "init", i |-> 0, sorted_slots |-> <<>>,
       canvas |-> <<>>, calls |-> <<>>] :
        zs \in PairZs, mode \in {"overlay", "background"}, pics \in PairStickers,
        position \in {NoOverride,
                      UserPosition("dict", Some(QInt(2)), Some(10), Some(-20), Some(400))} }

InitPair ==
    /\ \E first \in PairFrames :
          /\ template_meta = first.template_meta
          /\ template_file = first.template_file
          /\ stickers = first.stickers
          /\ processing_mode = first.processing_mode
          /\ user_position = first.user_position
    /\ RunStart
    /\ \E second \in PairFrames : parked = Some(second)
    /\ Idle /\ NoGenerate /\ NoStats

SpecPair == InitPair /\ [][NextPair]_vars

Init == (InitLayering \/ InitSingle \/ InitScenario) /\ RunStart /\ Idle /\ NoGenerate /\ Alone /\ NoStats

Spec == Init /\ [][Next]_vars

(***************************************************************************)
(* load_template_metadata(template_id, templates_dir)                      *)
(* A JSON object is a record of Optional values, None for an absent key.   *)
(* The metadata file is [state, data] with state "absent", "unparsable"    *)
(* (json.load raises) or "ok".  Ids are numbered.                          *)
(***************************************************************************)
\* dict.get(key, default)
GetOr(o, default) == IF IsSome(o) THEN Get(o) ELSE default

AnchorJson(x, y, targetX, targetY) ==
    [x |-> x, y |-> y, targetX |-> targetX, targetY |-> targetY]

\* the default of slot_data.get("anchor", {})
EmptyAnchorJson == AnchorJson(None, None, None, None)

SlotJson(id, slotId, x, y, width, height, anchorTarget, anchor, zIndex, desiredFaceRatio, minZoom, maxZoom) ==
    [id |-> id, slotId |-> slotId, x |-> x, y |-> y, width |-> width, height |-> height,
     anchorTarget |-> anchorTarget, anchor |-> anchor, zIndex |-> zIndex,
     desiredFaceRatio |-> desiredFaceRatio, minZoom |-> minZoom, maxZoom |-> maxZoom]

TemplateJson(id, templateId, name, png_path, pngUrl, slots, anchorMode, dimensions, width, height, templateType, mode, compositeMode) ==
    [id |-> id, templateId |-> templateId, name |-> name, png_path |-> png_path,
     pngUrl |-> pngUrl, slots |-> slots, anchorMode |-> anchorMode,
     dimensions |-> dimensions, width |-> width, height |-> height,
     templateType |-> templateType, mode |-> mode, compositeMode |-> compositeMode]

\* the dataclass TemplateMetadata with all its fields
TemplateMetadata(template_id, name, png_path, slots, anchor_mode, width, height, template_type, composite_mode) ==
    [template_id |-> template_id, name |-> name, png_path |-> png_path, slots |-> slots,
     anchor_mode |-> anchor_mode, width |-> width, height |-> height,
     template_type |-> template_type, composite_mode |-> composite_mode]

\* slot_data["x"], ["y"], ["width"], ["height"]: a missing key raises KeyError
SlotJsonComplete(slot_data) ==
    IsSome(slot_data.x) /\ IsSome(slot_data.y) /\ IsSome(slot_data.width)
        /\ IsSome(slot_data.height)

\* line 69: slot_data.get("anchorTarget", slot_data.get("anchor", {}))
SlotAnchorJson(slot_data) ==
    GetOr(slot_data.anchorTarget, GetOr(slot_data.anchor, EmptyAnchorJson))

\* lines 70-82: one SlotMetadata
LoadSlot(slot_data) ==
    LET anchor == SlotAnchorJson(slot_data)
    IN  Slot(GetOr(slot_data.id, GetOr(slot_data.slotId, 0)),
             Get(slot_data.x), Get(slot_data.y), Get(slot_data.width),
             Get(slot_data.height),
             IF IsSome(anchor.x) THEN anchor.x ELSE anchor.targetX,
             IF IsSome(anchor.y) THEN anchor.y ELSE anchor.targetY,
             GetOr(slot_data.zIndex, 0),
             slot_data.desiredFaceRatio,
             GetOr(slot_data.minZoom, Q(1, 2)),
             GetOr(slot_data.maxZoom, QInt(3)))

\* lines 84-95: the TemplateMetadata of a parsed file
LoadTemplate(template_id, data) ==
    LET slots == GetOr(data.slots, <<>>)
        dimensions == GetOr(data.dimensions, [width |-> None, height |-> None])
    IN  TemplateMetadata(GetOr(data.id, template_id),
                         GetOr(data.name, "Unnamed"),
                         GetOr(data.png_path, GetOr(data.pngUrl, "")),
                         [k \in 1 .. Len(slots) |-> LoadSlot(slots[k])],
                         GetOr(data.anchorMode, "bbox_center"),
                         GetOr(dimensions.width, GetOr(data.width, 1200)),
                         GetOr(dimensions.height, GetOr(data.height, 1600)),
                         GetOr(data.templateType, "sticker"),
                         GetOr(data.compositeMode, "overlay"))

\* lines 61-99: None when no file exists or when reading it raises
load_template_metadata(template_id, file) ==
    IF file.state # "ok" THEN None
    ELSE IF \E k \in 1 .. Len(GetOr(file.data.slots, <<>>)) :
               ~SlotJsonComplete(GetOr(file.data.slots, <<>>)[k])
    THEN None
    ELSE Some(LoadTemplate(template_id, file.data))

(***************************************************************************)
(* update_template_config(template_id, config) of api/admin.py             *)
(* config is the TemplateConfigUpdate of the visual editor; existing is    *)
(* the JSON of the metadata file found for template_id, None when no file  *)
(* carries that id (404).  The result is the JSON written to that file.    *)
(***************************************************************************)
SlotConfig(id, x, y, width, height, anchorX, anchorY) ==
    [id |-> id, x |-> x, y |-> y, width |-> width, height |-> height,
     anchorX |-> anchorX, anchorY |-> anchorY]

TemplateConfigUpdate(name, templateType, compositeMode, pngUrl, anchorMode, dimensions, slots, desiredFaceRatio, minZoom, maxZoom) ==
    [name |-> name, templateType |-> templateType, compositeMode |-> compositeMode,
     pngUrl |-> pngUrl, anchorMode |-> anchorMode, dimensions |-> dimensions,
     slots |-> slots, desiredFaceRatio |-> desiredFaceRatio, minZoom |-> minZoom,
     maxZoom |-> maxZoom]

\* lines 229-231: meta.get("id") or meta.get("templateId"), compared with
\* template_id (an id is a number here, and no id is falsy)
ConfigFound(template_id, existing) ==
    /\ IsSome(existing)
    /\ (IF IsSome(Get(existing).id) THEN Get(existing).id ELSE Get(existing).templateId)
          = Some(template_id)

\* line 243: existing_meta.get("pngUrl") or existing_meta.get("png_path", "")
OriginalPngUrl(existing_meta) ==
    IF IsSome(existing_meta.pngUrl) /\ Get(existing_meta.pngUrl) # ""
    THEN Get(existing_meta.pngUrl)
    ELSE GetOr(existing_meta.png_path, "")

\* lines 262-266: "anchor": {"targetX": int(slot.width * slot.anchorX), ...}
SavedAnchor(slot) ==
    AnchorJson(None, None, Some(QInt(IntOfProduct(slot.width, slot.anchorX))),
               Some(QInt(IntOfProduct(slot.height, slot.anchorY))))

\* lines 256-271: one slot of the written JSON, zIndex its position
SavedSlot(slot, zIndex, config) ==
    SlotJson(None, Some(slot.id), Some(slot.x), Some(slot.y), Some(slot.width),
             Some(slot.height), None, Some(SavedAnchor(slot)), Some(zIndex),
             Some(config.desiredFaceRatio), Some(config.minZoom), Some(config.maxZoom))

update_template_config(template_id, config, existing) ==
    IF ~ConfigFound(template_id, existing) THEN None
    ELSE Some(TemplateJson(None, Some(template_id), Some(config.name), None,
                           Some(OriginalPngUrl(Get(existing))),
                           Some([k \in 1 .. Len(config.slots) |->
                                    SavedSlot(config.slots[k], k - 1, config)]),
                           Some(config.anchorMode), Some(config.dimensions), None, None,
                           Some(config.templateType), None, Some(config.compositeMode)))

(***************************************************************************)
(* generate_composite: one request, as a state machine around compose_final *)
(* request = [template_id, file, template_file, frame_size, photos,        *)
(*            processing_mode, photo_position]                             *)
(*   file            the metadata file of template_id                      *)
(*   template_file   what the template's png_path names: "absent", "ok",   *)
(*                   "corrupt"; frame_size is the size of that image       *)
(*   photos          per photo: whether it decodes, the size of the image  *)
(*                   (after background removal in sticker mode), the size  *)
(*                   of its alpha bounding box (None: fully transparent),  *)
(*                   and what the detector does on the cropped sticker     *)
(*   photo_position  the form field: absent, "" , invalid JSON, or JSON    *)
(***************************************************************************)
Photo(readable, w, h, bbox, detector, face) ==
    [readable |-> readable, image |-> [w |-> w, h |-> h], bbox |-> bbox,
     detector |-> detector, face |-> face]

PhotoPosition(form, value) == [form |-> form, value |-> value]

Request(template_id, file, png, frame_size, photos, mode, photo_position) ==
    [template_id |-> template_id, file |-> file, template_file |-> png,
     frame_size |-> frame_size, photos |-> photos, processing_mode |-> mode,
     photo_position |-> photo_position]

GenerateResponse(success, mode_used) == [success |-> success, processing_mode_used |-> mode_used]

\* mutant: the default slot carries no anchor target
DefaultTemplate_unanchored(template_id) ==
    TemplateMetadata(template_id, "Default Template", "",
                     <<Slot(0, 100, 100, 1000, 1000, None, None, 0, None, Q(1, 2),
                            QInt(3))>>,
                     "bbox_center", 1200, 1200, "sticker", "overlay")

\* lines 88-107: the template substituted when no metadata was loaded; the
\* slot id "main" is numbered 0
DefaultTemplate(template_id) ==
    TemplateMetadata(template_id, "Default Template", "",
                     <<Slot(0, 100, 100, 1000, 1000, Some(QInt(500)), Some(QInt(400)), 0,
                            None, Q(1, 2), QInt(3))>>,
                     "bbox_center", 1200, 1200, "sticker", "overlay")

\* lines 82-83
ValidMode(mode) == IF mode \in {"sticker", "frame"} THEN mode ELSE "sticker"

\* the size crop_to_alpha_bbox returns for a photo's cutout (lines 117-121)
CroppedSize(photo) == IF IsSome(photo.bbox) THEN Get(photo.bbox) ELSE [w |-> 1, h |-> 1]

\* mutant: the detector is given the uncropped cutout
DetectionInput_uncropped(photo) == photo.image

\* line 130: the detector is given the cropped sticker
DetectionInput(photo) == CroppedSize(photo)

\* lines 129-136: a detector exception is swallowed, landmarks stay None
DetectedLandmarks(photo) == IF photo.detector = "raises" THEN None ELSE photo.face

\* lines 162-167: json.loads of a non-empty field; a JSONDecodeError leaves None
ParsePhotoPosition(photo_position) ==
    IF photo_position.form = "json" THEN photo_position.value ELSE NoOverride

\* line 170: template_path, as what it names
TemplatePathState ==
    IF template_meta.png_path = "" THEN "unset" ELSE request.template_file

\* lines 76-107: validation and template metadata
Receive ==
    /\ gpc = "start"
    /\ IF request.photos = <<>>
       THEN /\ gpc' = "failed"
            /\ UNCHANGED <<processing_mode, template_meta>>
       ELSE /\ gpc' = "photos"
            /\ processing_mode' = ValidMode(request.processing_mode)
            /\ template_meta' =
                  GetOr(load_template_metadata(request.template_id, request.file),
                        DefaultTemplate(request.template_id))
    /\ UNCHANGED <<template_file, stickers, user_position, pc, i, sorted_slots, canvas,
                   calls, fn, args, ret, statsVars, request, response, parked>>

\* lines 112-147: one iteration of the photo loop
ProcessPhoto ==
    /\ gpc = "photos"
    /\ Len(stickers) < Len(request.photos)
    /\ LET k == Len(stickers)
           photo == request.photos[k + 1]
           cropped == CroppedSize(photo)
           landmarks == DetectedLandmarks(photo)
       IN  IF ~photo.readable
           THEN /\ gpc' = "failed"
                /\ UNCHANGED <<stickers, calls>>
           ELSE IF processing_mode = "sticker"
           THEN /\ stickers' = Append(stickers, [image |-> cropped, landmarks |-> landmarks])
                /\ calls' = calls \o
                       <<Call("crop", k, [image |-> photo.image, result |-> cropped]),
                         Call("detect", k, [image |-> DetectionInput(photo),
                                            result |-> landmarks])>>
                /\ UNCHANGED gpc
           ELSE /\ stickers' = Append(stickers, [image |-> photo.image, landmarks |-> None])
                /\ UNCHANGED <<calls, gpc>>
    /\ UNCHANGED <<template_meta, template_file, processing_mode, user_position, pc, i,
                   sorted_slots, canvas, fn, args, ret, statsVars, request, response, parked>>

\* lines 149-172, 215: the editor position, template_path and the choice
\* between the frame path and compose_final
Dispatch ==
    /\ gpc = "photos"
    /\ Len(stickers) = Len(request.photos)
    /\ user_position' = ParsePhotoPosition(request.photo_position)
    /\ template_file' = TemplatePathState
    /\ IF processing_mode = "frame" /\ TemplatePathState \in {"ok", "corrupt"}
       THEN gpc' = "frame" /\ UNCHANGED pc
       ELSE gpc' = "compose" /\ pc' = "init"
    /\ UNCHANGED <<template_meta, stickers, processing_mode, i, sorted_slots, canvas,
                   calls, fn, args, ret, statsVars, request, response, parked>>

\* lines 172-212: the photo covers the canvas of the frame's size, the frame
\* is laid on top
FrameCompose ==
    /\ gpc = "frame"
    /\ IF template_file = "corrupt"
       THEN /\ gpc' = "failed"
            /\ UNCHANGED <<canvas, calls>>
       ELSE LET canvas_w == request.frame_size.w
                canvas_h == request.frame_size.h
                photo_img == stickers[1].image
                wider == photo_img.w * canvas_h > canvas_w * photo_img.h
                new_w == IF wider THEN Trunc(Q(photo_img.w * canvas_h, photo_img.h))
                         ELSE canvas_w
                new_h == IF wider THEN canvas_h
                         ELSE Trunc(Q(photo_img.h * canvas_w, photo_img.w))
            IN  /\ gpc' = "composed"
                /\ calls' = Append(calls, Call("cover", 0, [w |-> new_w, h |-> new_h]))
                /\ canvas' = (IF stickers # <<>>
                               THEN <<[op |-> "paste", slot_id |-> 0, sticker |-> 1,
                                       x |-> 0, y |-> 0, w |-> canvas_w, h |-> canvas_h]>>
                               ELSE <<>>) \o <<TemplatePaint>>
    /\ UNCHANGED <<template_meta, template_file, stickers, processing_mode, user_position,
                   pc, i, sorted_slots, fn, args, ret, statsVars, request, response, parked>>

\* lines 215-221: compose_final has returned or raised
ComposeReturn ==
    /\ gpc = "compose"
    /\ pc \in {"done", "raised"}
    /\ gpc' = IF pc = "done" THEN "composed" ELSE "failed"
    /\ UNCHANGED <<runVars, fn, args, ret, statsVars, request, response, parked>>

\* lines 223-244: the result is saved, counted by the process's stats_service
\* (line 227; no other process writes the file meanwhile) and reported, or
\* the exception is reported as a failure
Respond ==
    /\ gpc \in {"composed", "failed"}
    /\ gpc' = "returned"
    /\ response' = Some(IF gpc = "composed" THEN GenerateResponse(TRUE, Some(processing_mode))
                        ELSE GenerateResponse(FALSE, None))
    /\ IF gpc = "composed"
       THEN LET stats == increment_generation(Get(workers[1].stats), processing_mode,
                                              request.template_id)
            IN  /\ workers' = [workers EXCEPT ![1] = Worker("ready", Some(stats), @.made + 1)]
                /\ stats_file' = Written(stats)
       ELSE UNCHANGED statsVars
    /\ UNCHANGED <<runVars, fn, args, ret, request, parked>>

NextGenerate ==
    Receive \/ ProcessPhoto \/ Dispatch \/ FrameCompose \/ Begin \/ SlotStep \/ Finish
        \/ ComposeReturn \/ Respond

(***************************************************************************)
(* The pure functions, each applied to inputs drawn from bounded sets      *)
(***************************************************************************)
\* no run but for its processing_mode
NoRun ==
    /\ template_meta = Template(<<>>, "none", 0, 0, "none")
    /\ template_file = "unset"
    /\ stickers = <<>>
    /\ user_position = NoOverride
    /\ pc = "idle" /\ i = 0 /\ sorted_slots = <<>> /\ canvas = <<>> /\ calls = <<>>

RunIdle == NoRun /\ processing_mode = "sticker"

Pending(name) == fn = name /\ ret = None

Return(value) ==
    /\ ret' = Append(ret, value)
    /\ UNCHANGED <<runVars, fn, args, statsVars, genVars, parked>>

\* ---- fit_sticker_to_slot ----
MaxStickerSide == 4   \* sticker sides 0..MaxStickerSide
MaxSlotSide == 3      \* slot sides 1..MaxSlotSide
MaxFace == 3          \* face heights 0..MaxFace

\* 11 and 15: int(11 * (15 / 11)) is 14 in binary64
FitStickerSides == (0 .. MaxStickerSide) \cup {11}
FitSlotSides == (1 .. MaxSlotSide) \cup {15}

Zooms == {Q(1, 2), QInt(1), QInt(2)}
FaceRatios == {None, Some(QInt(0)), Some(Q(35, 100)), Some(Q(1, 2))}

\* compose_final's processing_mode: any string, "frame" selects "cover"
ProcessingModes == {"sticker", "frame", "print"}

InitFit ==
    /\ fn = "fit"
    /\ processing_mode \in ProcessingModes
    /\ \E w \in FitStickerSides, h \in FitStickerSides,
          width \in FitSlotSides, height \in FitSlotSides,
          lo \in Zooms, hi \in Zooms, ratio \in FaceRatios,
          face_height \in {None} \cup {Some(f) : f \in 0 .. MaxFace} :
          args = [sticker |-> [w |-> w, h |-> h],
                  slot |-> Slot(1, 0, 0, width, height, None, None, 0, ratio, lo, hi),
                  fit_mode |-> FitMode, face_height |-> face_height]
    /\ ret = None
    /\ NoRun /\ NoGenerate /\ Alone /\ NoStats

ApplyFit ==
    /\ Pending("fit")
    /\ Return(fit_sticker_to_slot(args.sticker, args.slot, args.fit_mode, args.face_height))

SpecFit == InitFit /\ [][ApplyFit]_vars

\* ---- calculate_placement ----
MaxSide == 12         \* sides and landmark coordinates 0..MaxSide on the varied axis

AnchorTargets == {None, Some(Q(1, 2)), Some(Q(3, 2)), Some(QInt(3))}
Confidences == {Q(3, 10), Q(1, 2), Q(51, 100), Q(9, 10)}
SlotSides == (1 .. (MaxSide \div 2)) \cup {50, 99}
StickerSides == (0 .. MaxSide) \cup {60, 130}
FacePoints == {0, 3, MaxSide - 3}

PlaceLandmarks(cx, cy, ey) ==
    {None} \cup {Some(Landmarks(cx, cy, ey, 2, c)) : c \in Confidences}

\* the horizontal inputs vary, the vertical ones are fixed
InitPlaceX ==
    \E x \in {0, 7}, width \in SlotSides, w \in StickerSides, ax \in AnchorTargets,
       cx \in FacePoints, landmarks \in PlaceLandmarks(0, 0, 0) :
       args = [sticker |-> [w |-> w, h |-> 8],
               slot |-> Slot(1, x, 5, width, 6, ax, None, 0, None, Q(1, 2), QInt(3)),
               anchor_mode |-> "face_center",
               landmarks |-> IF IsSome(landmarks)
                             THEN Some([Get(landmarks) EXCEPT !.center_x = cx,
                                                              !.center_y = 4, !.eye_y = 3])
                             ELSE None]

\* the vertical inputs vary, the horizontal ones are fixed
InitPlaceY ==
    \E y \in {0, 7}, height \in SlotSides, h \in StickerSides, ay \in AnchorTargets,
       cy \in FacePoints, anchor_mode \in {"face_center", "eyes", "none"},
       landmarks \in PlaceLandmarks(0, 0, 0) :
       args = [sticker |-> [w |-> 5, h |-> h],
               slot |-> Slot(1, 2, y, 4, height, None, ay, 0, None, Q(1, 2), QInt(3)),
               anchor_mode |-> anchor_mode,
               landmarks |-> IF IsSome(landmarks)
                             THEN Some([Get(landmarks) EXCEPT !.center_x = 2,
                                                              !.center_y = cy,
                                                              !.eye_y = Max(0, cy - 2)])
                             ELSE None]

InitPlace ==
    fn = "place" /\ (InitPlaceX \/ InitPlaceY) /\ ret = None /\ RunIdle /\ NoGenerate /\ Alone /\ NoStats

ApplyPlace ==
    /\ Pending("place")
    /\ Return(calculate_placement(args.sticker, args.slot, args.anchor_mode,
                                  args.landmarks))

SpecPlace == InitPlace /\ [][ApplyPlace]_vars

\* ---- resolve_anchor_to_pixels ----
MaxAnchor == 3        \* anchor values -1 .. MaxAnchor in steps of 1/4
MaxDimension == 8     \* dimension sizes 1..MaxDimension

AnchorValues ==
    {None, Some(QInt(500))} \cup {Some(Q(n, 4)) : n \in -4 .. (4 * MaxAnchor)}

InitAnchor ==
    /\ fn = "anchor"
    /\ \E val \in AnchorValues, dimension_size \in (1 .. MaxDimension) \cup {800} :
          args = [val |-> val, dimension_size |-> dimension_size]
    /\ ret = None
    /\ RunIdle /\ NoGenerate /\ Alone /\ NoStats

ApplyAnchor ==
    /\ Pending("anchor")
    /\ Return(resolve_anchor_to_pixels(args.val, args.dimension_size))

SpecAnchor == InitAnchor /\ [][ApplyAnchor]_vars

\* ---- crop_to_alpha_bbox, applied twice ----
MaxImageW == 2        \* image widths 1..MaxImageW
MaxImageH == 2        \* image heights 1..MaxImageH

\* transparent black, transparent with colour left in it, visible
RGBAPixels == {[c |-> 0, a |-> 0], [c |-> 1, a |-> 0], [c |-> 1, a |-> 1]}
RGBPixels == {[c |-> 0, a |-> 1], [c |-> 1, a |-> 1]}

PixelsOf(mode) == IF mode = "RGBA" THEN RGBAPixels ELSE RGBPixels

InitCrop ==
    /\ fn = "crop"
    /\ \E w \in 1 .. MaxImageW, h \in 1 .. MaxImageH, mode \in {"RGBA", "RGB"} :
          \E px \in [Coords(w, h) -> PixelsOf(mode)] :
             args = [sticker |-> [mode |-> mode, w |-> w, h |-> h, px |-> px]]
    /\ ret = None
    /\ RunIdle /\ NoGenerate /\ Alone /\ NoStats

ApplyCrop ==
    /\ fn = "crop"
    /\ Len(ret) < 2
    /\ Return(crop_to_alpha_bbox(IF ret = <<>> THEN args.sticker ELSE ret[Len(ret)]))

SpecCrop == InitCrop /\ [][ApplyCrop]_vars

\* ---- load_template_metadata ----
\* anchor objects: absent, legacy keys, current keys, both kinds of keys
AnchorJsons ==
    { None,
      Some(AnchorJson(Some(Q(1, 2)), Some(Q(1, 4)), None, None)),
      Some(AnchorJson(None, None, Some(QInt(30)), Some(QInt(40)))),
      Some(AnchorJson(Some(QInt(5)), Some(QInt(6)), Some(QInt(7)), Some(QInt(8)))) }

MetadataFile(state, data) == [state |-> state, data |-> data]

\* no metadata file, or one whose content json.load rejects
NoData ==
    TemplateJson(None, None, None, None, None, None, None, None, None, None, None, None,
                 None)

\* a slot record with every combination of id keys and anchor objects, with
\* or without its "x"
SlotJsons ==
    { SlotJson(id, slotId, x, Some(20), Some(60), Some(80), anchorTarget, anchor,
               Some(1), None, None, None) :
        id \in {None, Some(1)}, slotId \in {None, Some(2)}, x \in {None, Some(10)},
        anchorTarget \in AnchorJsons, anchor \in AnchorJsons }

InitLoad ==
    /\ fn = "load"
    /\ \/ \E state \in {"absent", "unparsable"} :
             args = [template_id |-> 3, file |-> MetadataFile(state, NoData)]
       \/ \E id \in {None, Some(4)}, templateId \in {None, Some(5)},
             png_path \in {None, Some("legacy.png")}, pngUrl \in {None, Some("current.png")},
             templateType \in {None, Some("frame")}, mode \in {None, Some("sticker")},
             slots \in {None, Some(<<>>)} \cup {Some(<<slot_data>>) : slot_data \in SlotJsons} :
             args = [template_id |-> 3,
                     file |-> MetadataFile("ok",
                         TemplateJson(id, templateId, None, png_path, pngUrl, slots,
                                      Some("eyes"), Some([width |-> Some(120), height |-> None]),
                                      None, Some(200), templateType, mode,
                                      Some("background")))]
    /\ ret = None
    /\ RunIdle /\ NoGenerate /\ Alone /\ NoStats

ApplyLoad ==
    /\ Pending("load")
    /\ Return(load_template_metadata(args.template_id, args.file))

SpecLoad == InitLoad /\ [][ApplyLoad]_vars

\* ---- update_template_config, load_template_metadata, resolve_anchor_to_pixels ----
MaxConfigSide == 4    \* slot sides 1..MaxConfigSide, and 10 and 100

ConfigSides == (1 .. MaxConfigSide) \cup {10, 100}
EditorAnchors == {QInt(0), Q(1, 10), Q(1, 4), Q(29, 100), Q(1, 2), Q(3, 4), QInt(1)}

\* the file the editor's template was uploaded with, and another template's
ExistingJsons ==
    { Some(TemplateJson(None, Some(3), Some("Booth"), None, Some("frame.png"), Some(<<>>),
                        None, None, None, None, None, None, None)),
      Some(TemplateJson(Some(4), Some(3), Some("Other"), Some("other.png"), None,
                        Some(<<>>), None, None, None, None, None, None, None)),
      None }

InitConfig ==
    /\ fn = "config"
    /\ \E width \in ConfigSides, height \in ConfigSides,
          anchorX \in EditorAnchors, anchorY \in EditorAnchors,
          existing \in ExistingJsons :
          args = [template_id |-> 3, existing |-> existing,
                  config |-> TemplateConfigUpdate("Booth", "sticker", "overlay", "sent.png",
                                 "face_center",
                                 [width |-> Some(120), height |-> Some(160)],
                                 <<SlotConfig(1, 10, 20, width, height, anchorX, anchorY)>>,
                                 Q(35, 100), Q(1, 2), QInt(3))]
    /\ ret = None
    /\ RunIdle /\ NoGenerate /\ Alone /\ NoStats

\* the editor saves the configuration
SaveConfig ==
    /\ Pending("config")
    /\ Return(update_template_config(args.template_id, args.config, args.existing))

\* a later request loads the file that was written
ReloadConfig ==
    /\ fn = "config" /\ Len(ret) = 1 /\ IsSome(ret[1])
    /\ Return(load_template_metadata(args.template_id, MetadataFile("ok", Get(ret[1]))))

\* calculate_placement resolves the anchor targets of the loaded slots
\* (compose.py lines 209-210)
ResolveAnchors ==
    /\ fn = "config" /\ Len(ret) = 2 /\ IsSome(ret[2])
    /\ Return([k \in 1 .. Len(Get(ret[2]).slots) |->
                  LET slot == Get(ret[2]).slots[k]
                  IN  <<resolve_anchor_to_pixels(slot.anchor_target_x, slot.width),
                        resolve_anchor_to_pixels(slot.anchor_target_y, slot.height)>>])

NextConfig == SaveConfig \/ ReloadConfig \/ ResolveAnchors

SpecConfig == InitConfig /\ [][NextConfig]_vars

\* ---- StatsService instances of several worker processes ----
InitStats == RunIdle /\ Idle /\ NoGenerate /\ Alone /\ NoStats

SpecStats == InitStats /\ [][NextStats]_vars

(***************************************************************************)
(* Inputs of the checked generate requests                                 *)
(***************************************************************************)
MaxPhotos == 2      \* photos per request

\* a metadata file with one slot, written with the current field names
RequestJson(compositeMode, pngUrl) ==
    TemplateJson(None, Some(3), Some("Booth"), None, pngUrl,
                 Some(<<SlotJson(None, Some(1), Some(10), Some(10), Some(100), Some(100),
                                 None, Some(AnchorJson(None, None, Some(QInt(50)),
                                                       Some(QInt(30)))),
                                 Some(0), Some(Q(35, 100)), Some(Q(1, 2)), Some(QInt(3)))>>),
                 Some("face_center"), Some([width |-> Some(120), height |-> Some(160)]),
                 None, None, Some("sticker"), None, Some(compositeMode))

\* the same file with a slot that has no "x"
IncompleteJson ==
    [RequestJson("overlay", Some("frame.png")) EXCEPT
        !.slots = Some(<<[Get(@)[1] EXCEPT !.x = None]>>)]

MetadataFiles ==
    {MetadataFile("absent", NoData), MetadataFile("unparsable", NoData),
     MetadataFile("ok", IncompleteJson)}
        \cup {MetadataFile("ok", RequestJson(compositeMode, pngUrl)) :
                 compositeMode \in {"overlay", "background"},
                 pngUrl \in {None, Some("frame.png")}}

\* photos: a face, no face, a fully transparent cutout, a face on which the
\* detector raises, and bytes that do not decode
FacePhoto == Photo(TRUE, 50, 90, Some([w |-> 40, h |-> 80]), "ok",
                   Some(Landmarks(20, 30, 25, 10, Q(9, 10))))
PlainPhoto == Photo(TRUE, 30, 60, Some([w |-> 30, h |-> 60]), "ok", None)
BlankPhoto == Photo(TRUE, 30, 60, None, "ok", None)
ShakyPhoto == Photo(TRUE, 50, 90, Some([w |-> 40, h |-> 80]), "raises",
                    Some(Landmarks(20, 30, 25, 10, Q(9, 10))))
BrokenPhoto == Photo(FALSE, 0, 0, None, "ok", None)

Photos == {FacePhoto, PlainPhoto, BlankPhoto, ShakyPhoto, BrokenPhoto}

\* the photo_position field: absent, empty, not JSON, or a JSON value (a falsy
\* value, a full object, partial objects, editorWidth 0, a truthy non-object)
PhotoPositions ==
    {PhotoPosition(form, NoOverride) : form \in {"absent", "empty", "invalid"}}
        \cup {PhotoPosition("json", value) : value \in Overrides}

Requests ==
    { Request(3, file, png, [w |-> 120, h |-> 160], photos, mode, photo_position) :
        file \in MetadataFiles, png \in {"absent", "ok", "corrupt"},
        photos \in SeqsUpTo(Photos, MaxPhotos),
        mode \in {"sticker", "frame", "portrait"},
        photo_position \in PhotoPositions }

InitGenerate ==
    /\ request \in Requests
    /\ gpc = "start"
    /\ response = None
    /\ RunIdle /\ Idle /\ Alone /\ OneWorker

SpecGenerate == InitGenerate /\ [][NextGenerate]_vars

(***************************************************************************)
(* Properties of compose_final runs (specification Spec)                   *)
(***************************************************************************)
Pastes == SelectSeq(canvas, LAMBDA p : p.op = "paste")
Running == pc \in {"slots", "done", "raised"}

\* C1: with an existing template image, composite_mode "background" paints the
\* template before every sticker paste (it is the first paint and the only
\* template paint), and composite_mode "overlay" paints it after every sticker
\* paste (a template paint is never followed by anything, and a returned canvas
\* ends with it).
C1_TemplateFirstOrLast ==
    (template_file = "ok" /\ Running) =>
        /\ template_meta.composite_mode = "background" =>
              /\ Len(canvas) >= 1
              /\ canvas[1].op = "template"
              /\ \A k \in 2 .. Len(canvas) : canvas[k].op = "paste"
        /\ template_meta.composite_mode = "overlay" =>
              /\ \A k \in 1 .. Len(canvas) :
                    canvas[k].op = "template" => (k = Len(canvas) /\ pc = "done")
              /\ pc = "done" => (Len(canvas) >= 1 /\ canvas[Len(canvas)].op = "template")

\* a returned overlay canvas with two pastes under the template
C1_Witness ==
    /\ pc = "done" /\ template_file = "ok"
    /\ template_meta.composite_mode = "overlay"
    /\ Len(canvas) = 3 /\ canvas[1].op = "paste" /\ canvas[2].op = "paste"
    /\ canvas[3].op = "template"

\* position k of the input slot list comes before position l in ascending
\* z_index order, ties by input position
ComesBefore(k, l) ==
    LET slots == template_meta.slots
    IN  \/ slots[k].z_index < slots[l].z_index
        \/ (slots[k].z_index = slots[l].z_index /\ k < l)

InputPosition(slot_id) ==
    CHOOSE k \in 1 .. Len(template_meta.slots) : template_meta.slots[k].slot_id = slot_id

\* C2: whatever the input order of template_meta.slots, the j-th paste is for
\* the slot that has exactly j-1 slots before it in ascending z_index order with
\* ties broken by input position.
C2_PastesInZOrder ==
    \A j \in 1 .. Len(Pastes) :
        Cardinality({k \in 1 .. Len(template_meta.slots) :
                        ComesBefore(k, InputPosition(Pastes[j].slot_id))}) = j - 1

\* z_indices [2,0,1] with three stickers: pasted as slot z=0, z=1, z=2
C2_Witness ==
    /\ pc = "done"
    /\ [k \in 1 .. Len(template_meta.slots) |-> template_meta.slots[k].z_index] = <<2, 0, 1>>
    /\ Len(stickers) = 3
    /\ [j \in 1 .. Len(Pastes) |-> Pastes[j].slot_id] = <<2, 3, 1>>

\* C3: for N slots and M stickers the run raises no error and returns after
\* exactly min(N, M) pastes, the k-th paste using the k-th sticker (stated for
\* runs without an override whose template file is readable).
C3_ExactlyMinPastes ==
    (user_position = NoOverride /\ template_file # "corrupt") =>
        /\ pc # "raised"
        /\ pc = "done" =>
              /\ Len(Pastes) = Min(Len(template_meta.slots), Len(stickers))
              /\ \A k \in 1 .. Len(Pastes) :
                    /\ Pastes[k].sticker = k
                    /\ Pastes[k].slot_id = sorted_slots[k].slot_id

ScenarioRun ==
    /\ template_meta = ScenarioTemplate
    /\ stickers = <<ScenarioSticker>>
    /\ processing_mode = "sticker"
    /\ user_position = NoOverride

\* C7: the concrete scenario (canvas 1200x1600, slot 100,100,1000x1000, face
\* ratio 0.35, zoom 0.5..3.0, sticker 400x800 with face height 100 at
\* (200,300)) does not raise, applies scale 3.0, scales the sticker to
\* 1200x2400 and the face centre to (600,900), targets (500,300), computes the
\* raw placement (0,-500) and pastes at (0,-140).
C7_ConcreteScenario ==
    ScenarioRun =>
        /\ pc # "raised"
        /\ pc = "done" =>
              /\ Len(calls) = 2
              /\ calls[1].f = "fit"
              /\ calls[1].info.branch = "face"
              /\ QEq(calls[1].info.scale, QInt(3))
              /\ <<calls[1].info.w, calls[1].info.h>> = <<1200, 2400>>
              /\ calls[2].f = "place"
              /\ Get(calls[2].info.landmarks).center_x = 600
              /\ Get(calls[2].info.landmarks).center_y = 900
              /\ calls[2].info.placed.target = <<500, 300>>
              /\ calls[2].info.placed.raw = <<0, -500>>
              /\ canvas = <<PastePaint(ScenarioTemplate.slots[1], 1, 0, -140, 1200, 2400)>>

C7_Witness == ScenarioRun /\ pc = "done" /\ Len(canvas) = 1

(***************************************************************************)
(* Properties of fit_sticker_to_slot (specification SpecFit)               *)
(***************************************************************************)
Returned(name) == fn = name /\ ret # None

\* C4: whenever the face-normalized branch is taken, the scale applied lies in
\* [min_zoom, max_zoom], for every slot configuration a template can carry.
C4_FaceScaleWithinZoom ==
    (Returned("fit") /\ ret[1].branch = "face") =>
        /\ QLe(args.slot.min_zoom, ret[1].scale)
        /\ QLe(ret[1].scale, args.slot.max_zoom)

(***************************************************************************)
(* Properties of calculate_placement (specification SpecPlace)             *)
(***************************************************************************)
\* C5: in the fallback branch the returned y is never smaller than slot.y,
\* and it equals slot.y for every sticker taller than the slot.
C5_FallbackFloor ==
    (Returned("place") /\ ret[1].branch = "bottom") =>
        /\ ret[1].y >= args.slot.y
        /\ args.sticker.h > args.slot.height => ret[1].y = args.slot.y

C5_Witness ==
    /\ Returned("place") /\ ret[1].branch = "bottom"
    /\ args.sticker.h > args.slot.height
    /\ args.slot.y = 7 /\ ret[1].y = 7

\* C8 as stated: the face-anchored placement satisfies
\* slot.x - 0.2 w <= x <= slot.x + width - 0.8 w and
\* slot.y - 0.1 h <= y <= slot.y + height - 0.5 h, for every sticker size.
C8_BothBoundsAlways ==
    (Returned("place") /\ ret[1].branch = "face") =>
        LET slot == args.slot
            w == args.sticker.w
            h == args.sticker.h
        IN  /\ 10 * (ret[1].x - slot.x) >= -(2 * w)
            /\ 10 * (ret[1].x - slot.x - slot.width) <= -(8 * w)
            /\ 10 * (ret[1].y - slot.y) >= -h
            /\ 10 * (ret[1].y - slot.y - slot.height) <= -(5 * h)

\* the clamp bounds of lines 227-230, the products truncated to integers
LowerX == args.slot.x - ((2 * args.sticker.w) \div 10)
UpperX == args.slot.x + args.slot.width - ((8 * args.sticker.w) \div 10)
LowerY == args.slot.y - (args.sticker.h \div 10)
UpperY == args.slot.y + args.slot.height - ((5 * args.sticker.h) \div 10)

\* C8 amended: the lower bounds slot.x - 0.2 w <= x and slot.y - 0.1 h <= y
\* always hold; the upper bounds, with the product truncated to an integer,
\* hold whenever they are not below the lower clamp, and otherwise (a sticker
\* much larger than the slot) the result is the lower clamp itself.
C8_LowerBoundWins ==
    (Returned("place") /\ ret[1].branch = "face") =>
        /\ 10 * (ret[1].x - args.slot.x) >= -(2 * args.sticker.w)
        /\ 10 * (ret[1].y - args.slot.y) >= -args.sticker.h
        /\ LowerX <= ret[1].x
        /\ LowerY <= ret[1].y
        /\ IF LowerX <= UpperX THEN ret[1].x <= UpperX ELSE ret[1].x = LowerX
        /\ IF LowerY <= UpperY THEN ret[1].y <= UpperY ELSE ret[1].y = LowerY

\* a sticker much wider than the slot, placed at the lower clamp
C8_Witness ==
    /\ Returned("place") /\ ret[1].branch = "face"
    /\ args.sticker.w > 2 * args.slot.width
    /\ LowerX > UpperX
    /\ ret[1].x = LowerX

\* C9: the face-anchored branch is taken only with landmarks present and
\* confidence > 0.5; with absent landmarks or confidence <= 0.5 the result is
\* the bottom-center placement: x = slot.x + floor((width - w) / 2), y = the
\* bottom anchor with the 2% padding, floored at slot.y.
C9_FallbackBelowFloor ==
    Returned("place") =>
        LET slot == args.slot
            lm == args.landmarks
            confident == IsSome(lm) /\ 2 * Get(lm).confidence.num > Get(lm).confidence.den
            centred == ret[1].x - slot.x
            padded == slot.y + slot.height - args.sticker.h - ret[1].y
        IN  /\ ret[1].branch = "face" => confident
            /\ ~confident =>
                  /\ ret[1].branch = "bottom"
                  /\ 2 * centred <= slot.width - args.sticker.w
                  /\ slot.width - args.sticker.w < 2 * centred + 2
                  /\ \/ ret[1].y = slot.y /\ 50 * padded <= slot.height
                     \/ /\ ret[1].y > slot.y
                        /\ 50 * padded <= slot.height
                        /\ slot.height < 50 * (padded + 1)

\* landmarks with confidence exactly 0.5 fall back to bottom-center
C9_Witness ==
    /\ Returned("place")
    /\ IsSome(args.landmarks)
    /\ QEq(Get(args.landmarks).confidence, Q(1, 2))
    /\ ret[1].branch = "bottom"

(***************************************************************************)
(* Properties of resolve_anchor_to_pixels (specification SpecAnchor)       *)
(***************************************************************************)
InRatioRange(v) == 0 <= v.num /\ v.num <= v.den

\* the integer r is v truncated toward zero
IsTruncationOf(r, v) ==
    IF v.num >= 0 THEN r * v.den <= v.num /\ v.num < (r + 1) * v.den
    ELSE (r - 1) * v.den < v.num /\ v.num <= r * v.den

\* the cases of resolve_anchor_to_pixels; an absolute value is expected back
\* unchanged (exact) or truncated toward zero
AnchorCases(exact) ==
    Returned("anchor") =>
        /\ args.val = None <=> ret[1] = None
        /\ args.val # None =>
              LET v == Get(args.val)
                  r == Get(ret[1])
              IN  /\ InRatioRange(v) =>
                        IsTruncationOf(r, Q(v.num * args.dimension_size, v.den))
                  /\ ~InRatioRange(v) =>
                        IF exact THEN r * v.den = v.num ELSE IsTruncationOf(r, v)
                  /\ (v = Q(2, 4) /\ args.dimension_size = 800) => r = 400
                  /\ v = QInt(500) => r = 500

\* C6 as stated: a value in [0, 1] is a ratio of the dimension, any other
\* value is returned unchanged, an absent value resolves to None.
C6_AbsoluteUnchanged == AnchorCases(TRUE)

\* C6 amended: a value in [0, 1] is a ratio of the dimension (0.5 of 800 is
\* 400); any other value is an absolute offset truncated toward zero to an
\* integer, so an integral value such as 500 is returned unchanged; an absent
\* value resolves to None.
C6_AbsoluteTruncated == AnchorCases(FALSE)

\* the absolute value 1.25 resolves to 1
C6_Witness ==
    /\ Returned("anchor")
    /\ args.val = Some(Q(5, 4))
    /\ ret[1] = Some(1)

(***************************************************************************)
(* Properties of crop_to_alpha_bbox (specification SpecCrop)               *)
(***************************************************************************)
Visible(img) == {p \in Coords(img.w, img.h) : img.mode = "RGB" \/ img.px[p].a # 0}

\* C10: cropping the crop changes nothing (same size, same pixels), and the
\* crop of a fully transparent image is the 1x1 fully transparent image.
C10_CropIdempotent ==
    fn = "crop" =>
        /\ Len(ret) = 2 => ret[2] = ret[1]
        /\ (Len(ret) >= 1 /\ Visible(args.sticker) = {}) =>
              /\ <<ret[1].w, ret[1].h>> = <<1, 1>>
              /\ ret[1].px[<<0, 0>>] = [c |-> 0, a |-> 0]

\* an image with transparent padding was cropped, and the crop cropped again
C10_Witness ==
    /\ fn = "crop" /\ Len(ret) = 2
    /\ Visible(args.sticker) # {}
    /\ ret[1].w < args.sticker.w
    /\ ret[1].h < args.sticker.h

(***************************************************************************)
(* Properties of load_template_metadata (specification SpecLoad)           *)
(***************************************************************************)
Loaded == Returned("load") /\ ret[1] # None

\* C14: the loader accepts the current and the legacy name of the template id
\* (id / templateId), the slot id (slotId / id), the mode (templateType /
\* mode), the image path (pngUrl, png_path) and the anchor target
\* (anchor{targetX,targetY} / anchorTarget{x,y}); with both names present the
\* value under the current name is used.
C14_CurrentNameWins ==
    Loaded =>
        LET data == args.file.data
            meta == Get(ret[1])
            slots == GetOr(data.slots, <<>>)
        IN  /\ IsSome(data.id) => meta.template_id = Get(data.id)
            /\ (~IsSome(data.id) /\ IsSome(data.templateId)) =>
                  meta.template_id = Get(data.templateId)
            /\ IsSome(data.templateType) => meta.template_type = Get(data.templateType)
            /\ (~IsSome(data.templateType) /\ IsSome(data.mode)) =>
                  meta.template_type = Get(data.mode)
            /\ (IsSome(data.pngUrl) /\ ~IsSome(data.png_path)) =>
                  meta.png_path = Get(data.pngUrl)
            /\ (IsSome(data.png_path) /\ ~IsSome(data.pngUrl)) =>
                  meta.png_path = Get(data.png_path)
            /\ \A k \in 1 .. Len(slots) :
                  LET slot_data == slots[k]
                      slot == meta.slots[k]
                  IN  /\ IsSome(slot_data.slotId) => slot.slot_id = Get(slot_data.slotId)
                      /\ (~IsSome(slot_data.slotId) /\ IsSome(slot_data.id)) =>
                            slot.slot_id = Get(slot_data.id)
                      /\ (IsSome(slot_data.anchor)
                             /\ IsSome(Get(slot_data.anchor).targetX)) =>
                            slot.anchor_target_x = Get(slot_data.anchor).targetX
                      /\ (~IsSome(slot_data.anchor) /\ IsSome(slot_data.anchorTarget)
                             /\ IsSome(Get(slot_data.anchorTarget).x)) =>
                            slot.anchor_target_x = Get(slot_data.anchorTarget).x

(***************************************************************************)
(* Properties of generate_composite requests (specification SpecGenerate)  *)
(***************************************************************************)
FitCalls == SelectSeq(calls, LAMBDA c : c.f = "fit")
PlaceCalls == SelectSeq(calls, LAMBDA c : c.f = "place")
DetectCalls == SelectSeq(calls, LAMBDA c : c.f = "detect")

\* where a compose_final run raised: opening the template image (as many fits
\* as pastes), the resize of the fit (the last fit has no size), or the manual
\* override (the last fit succeeded and nothing was pasted for it)
RaisedIn ==
    IF pc # "raised" THEN "nowhere"
    ELSE IF Len(FitCalls) = Len(Pastes) THEN "template"
    ELSE IF FitCalls[Len(FitCalls)].info.raised THEN "fit"
    ELSE "override"

\* the photo_position field is not JSON, is JSON but not an object, or is an
\* object without x, y, scale or editorWidth, or with editorWidth 0
MalformedPosition(photo_position) ==
    \/ photo_position.form = "invalid"
    \/ /\ photo_position.form = "json"
       /\ LET value == photo_position.value
          IN  \/ value.kind # "dict"
              \/ ~IsSome(value.x) \/ ~IsSome(value.y) \/ ~IsSome(value.scale)
              \/ ~IsSome(value.editorWidth)
              \/ value.editorWidth = Some(0)

\* C11: with a malformed or partial photo_position the request is handled as
\* if none had been sent: every paste of compose_final is placed by
\* calculate_placement, and the override never makes the run raise.
C11_MalformedOverrideIgnored ==
    (MalformedPosition(request.photo_position) /\ pc # "idle") =>
        /\ Len(PlaceCalls) = Len(Pastes)
        /\ RaisedIn # "override"

\* no metadata can be loaded: no file, a file that is not JSON, or a slot
\* record without one of its required keys
Unloadable ==
    \/ request.file.state # "ok"
    \/ \E k \in 1 .. Len(GetOr(request.file.data.slots, <<>>)) :
          LET slot_data == Get(request.file.data.slots)[k]
          IN  \E key \in {"x", "y", "width", "height"} : slot_data[key] = None

\* the template of a request that got past validation
Substituted == Unloadable /\ request.photos # <<>> /\ gpc # "start"

\* C13 as stated: when no metadata can be loaded the handler goes on with a
\* template of exactly one slot that covers the whole canvas and has a fixed
\* anchor.
C13_DefaultFullCanvas ==
    Substituted =>
        /\ Len(template_meta.slots) = 1
        /\ LET slot == template_meta.slots[1]
           IN  /\ <<slot.x, slot.y>> = <<0, 0>>
               /\ <<slot.width, slot.height>> = <<template_meta.width, template_meta.height>>
               /\ slot.anchor_target_x # None /\ slot.anchor_target_y # None

\* C13 amended: when no metadata can be loaded the handler goes on with a
\* template of exactly one slot, the 1000x1000
\* rectangle at (100, 100) inside a 1200x1200 canvas (a 100-pixel margin on
\* every side), with the fixed anchor target (500, 400) and no template image.
C13_DefaultInsetSlot ==
    Substituted =>
        /\ Len(template_meta.slots) = 1
        /\ <<template_meta.width, template_meta.height>> = <<1200, 1200>>
        /\ template_meta.png_path = ""
        /\ LET slot == template_meta.slots[1]
           IN  /\ <<slot.x, slot.y, slot.width, slot.height>> = <<100, 100, 1000, 1000>>
               /\ slot.anchor_target_x = Some(QInt(500))
               /\ slot.anchor_target_y = Some(QInt(400))

\* a request for a template without metadata was composed on the default
\* template and answered with success
C13_Witness ==
    /\ Substituted
    /\ request.file.state = "unparsable"
    /\ gpc = "returned" /\ response # None /\ Get(response).success
    /\ Len(Pastes) = 1 /\ Pastes[1].slot_id = 0

\* the size of the sticker crop_to_alpha_bbox makes of a photo's cutout
CutoutBox(photo) == IF photo.bbox = None THEN [w |-> 1, h |-> 1] ELSE Get(photo.bbox)

\* the landmarks scaled are the landmarks orig of an image of width orig_w
\* that was scaled to width scaled_w
RescaledFrom(scaled, orig, orig_w, scaled_w) ==
    /\ scaled = None <=> orig = None
    /\ scaled # None =>
          /\ \A point \in {"center_x", "center_y", "eye_y", "face_height"} :
                IsTruncationOf(Get(scaled)[point], Q(Get(orig)[point] * scaled_w, orig_w))
          /\ Get(scaled).confidence = Get(orig).confidence

\* C17: the detector is called at most once per photo, in photo order, never
\* in frame mode, on the cropped sticker, and never after a fit; the landmarks
\* given to calculate_placement are the detector's result for that photo
\* rescaled by fitted width / sticker width.
C17_DetectOnceBeforeFit ==
    /\ request.processing_mode = "frame" => DetectCalls = <<>>
    /\ Len(DetectCalls) <= Len(request.photos)
    /\ \A j \in 1 .. Len(DetectCalls) :
          /\ DetectCalls[j].k = j - 1
          /\ DetectCalls[j].info.image = CutoutBox(request.photos[j])
    /\ \A a \in 1 .. Len(calls), b \in 1 .. Len(calls) :
          (calls[a].f = "fit" /\ calls[b].f = "detect") => b < a
    /\ \A j \in 1 .. Len(PlaceCalls) :
          LET k == PlaceCalls[j].k + 1
              detected == IF DetectCalls = <<>> THEN None ELSE DetectCalls[k].info.result
          IN  RescaledFrom(PlaceCalls[j].info.landmarks, detected,
                           stickers[k].image.w, FitCalls[j].info.w)

\* a sticker request whose face, detected once on the 40x80 crop, reached
\* placement scaled by 3
C17_Witness ==
    /\ gpc = "returned" /\ Get(response).success
    /\ Len(DetectCalls) = 2
    /\ DetectCalls[1].info.image = [w |-> 40, h |-> 80]
    /\ request.photos[1].image = [w |-> 50, h |-> 90]
    /\ Len(PlaceCalls) = 1
    /\ PlaceCalls[1].info.landmarks # None
    /\ Get(PlaceCalls[1].info.landmarks).center_x = 60
    /\ Get(PlaceCalls[1].info.landmarks).center_y = 90

(***************************************************************************)
(* Further properties of compose_final runs (specification Spec)           *)
(***************************************************************************)
TemplatePaints == SelectSeq(canvas, LAMBDA p : p.op = "template")

\* C12: when template_path is unset, names no file, or names a file that does
\* not decode, the run paints no template, is not aborted by the template
\* step, and a returned canvas carries a paste for every sticker that has a
\* slot.
C12_MissingTemplateSkipped ==
    template_file \in {"unset", "absent", "corrupt"} =>
        /\ TemplatePaints = <<>>
        /\ RaisedIn # "template"
        /\ pc = "done" => Len(Pastes) = Min(Len(template_meta.slots), Len(stickers))

\* C15: with a user_position override calculate_placement is never called,
\* and every paste is the fitted sticker scaled by the override's scale
\* (default 1), centred in its slot and moved by the override's (x, y)
\* (default 0) multiplied by template width / editorWidth (default 400), each
\* product truncated to an integer.
C15_OverrideBypassesPlacement ==
    OverrideGiven =>
        /\ PlaceCalls = <<>>
        /\ \A k \in 1 .. Len(Pastes) :
              LET paste == Pastes[k]
                  fitted == FitCalls[k].info
                  slot == sorted_slots[k]
                  scale == IF user_position.scale = None THEN QInt(1)
                           ELSE Get(user_position.scale)
                  ux == IF user_position.x = None THEN 0 ELSE Get(user_position.x)
                  uy == IF user_position.y = None THEN 0 ELSE Get(user_position.y)
                  ew == IF user_position.editorWidth = None THEN 400
                        ELSE Get(user_position.editorWidth)
                  centre_x == slot.x + ((slot.width - paste.w) \div 2)
                  centre_y == slot.y + ((slot.height - paste.h) \div 2)
              IN  /\ paste.slot_id = slot.slot_id
                  /\ IsTruncationOf(paste.w, Q(fitted.w * scale.num, scale.den))
                  /\ IsTruncationOf(paste.h, Q(fitted.h * scale.num, scale.den))
                  /\ ew > 0
                  /\ IsTruncationOf(paste.x - centre_x, Q(ux * template_meta.width, ew))
                  /\ IsTruncationOf(paste.y - centre_y, Q(uy * template_meta.width, ew))

\* the face sticker fitted to 120x240, doubled by the override and moved by
\* (10, -20) editor pixels at 120 / 400
C15_Witness ==
    /\ pc = "done"
    /\ user_position = UserPosition("dict", Some(QInt(2)), Some(10), Some(-20), Some(400))
    /\ Len(Pastes) = 1
    /\ <<FitCalls[1].info.w, FitCalls[1].info.h>> = <<120, 240>>
    /\ <<Pastes[1].w, Pastes[1].h>> = <<240, 480>>
    /\ <<Pastes[1].x, Pastes[1].y>> = <<-57, -186>>

(***************************************************************************)
(* Properties of two concurrent runs (specification SpecPair)              *)
(***************************************************************************)
\* the canvas a run with the executing call's arguments produces when it runs
\* alone: the paint operations of lines 271-275, 282-361 and 364-368 in order
SoloPaste(k) ==
    LET slot == SortedByZ(template_meta.slots)[k]
        sticker_img == stickers[k].image
        landmarks == stickers[k].landmarks
        face_h == IF IsSome(landmarks) THEN Some(Get(landmarks).face_height) ELSE None
        fitted == fit_sticker_to_slot(sticker_img, slot, FitMode, face_h)
        manual == OverridePlacement(fitted, slot)
        auto == calculate_placement(fitted, slot, template_meta.anchor_mode,
                                    ScaleLandmarks(landmarks,
                                                   ScaleFactor(fitted.w, sticker_img.w)))
    IN  IF OverrideGiven
        THEN PastePaint(slot, k, manual.x, manual.y, manual.w, manual.h)
        ELSE PastePaint(slot, k, auto.x, auto.y, fitted.w, fitted.h)

SoloCanvas ==
    (IF UnderlayWanted THEN <<TemplatePaint>> ELSE <<>>)
        \o [k \in 1 .. Min(Len(template_meta.slots), Len(stickers)) |-> SoloPaste(k)]
        \o (IF OverlayWanted THEN <<TemplatePaint>> ELSE <<>>)

\* a run executed alone paints SoloCanvas
SoloAgrees == pc = "done" => canvas = SoloCanvas

\* C16: in every interleaving of two runs on the shared service, each run
\* works on its own sorted slot list and its own canvas: at every step the
\* canvas of the executing run is a prefix of the canvas the run paints when
\* executed alone, and the returned canvas is that canvas.
C16_RunsIndependent ==
    pc \in {"slots", "done"} =>
        /\ sorted_slots = SortedByZ(template_meta.slots)
        /\ Len(canvas) <= Len(SoloCanvas)
        /\ canvas = SubSeq(SoloCanvas, 1, Len(canvas))
        /\ pc = "done" => canvas = SoloCanvas

\* both runs are in the middle of their slot loops, on different slot lists
C16_Witness ==
    /\ pc = "slots" /\ i = 1 /\ Len(sorted_slots) = 2
    /\ IsSome(parked)
    /\ Get(parked).pc = "slots" /\ Get(parked).i = 1
    /\ Get(parked).sorted_slots # sorted_slots
    /\ Get(parked).canvas # canvas

\* C18: no step of a run changes the TemplateMetadata it was given: the slot
\* list keeps its elements and their order, every slot and template field its
\* value; the z-ordered list is a separate one.
C18_TemplateMetaUntouched == [][template_meta' = template_meta]_vars

\* a returned run over slots given as z = 2, 0, 1: processed in z order, the
\* given list still in its order
C18_Witness ==
    /\ pc = "done"
    /\ [k \in 1 .. Len(template_meta.slots) |-> template_meta.slots[k].z_index] = <<2, 0, 1>>
    /\ [k \in 1 .. Len(sorted_slots) |-> sorted_slots[k].z_index] = <<0, 1, 2>>
    /\ Len(Pastes) = 3

\* the phase order and paint budget of a run, whether or not it is aborted:
\* the template is painted at most once, first for "background" or last (and
\* then the run has returned) for "overlay", never for another composite
\* mode; the pastes are at most min(#slots, #stickers) and the loop index
\* counts them
PhasesInOrder ==
    /\ Len(TemplatePaints) <= 1
    /\ template_meta.composite_mode \notin {"background", "overlay"} => TemplatePaints = <<>>
    /\ \A k \in 1 .. Len(canvas) :
          canvas[k].op = "template" =>
              \/ k = 1 /\ template_meta.composite_mode = "background"
              \/ k = Len(canvas) /\ template_meta.composite_mode = "overlay" /\ pc = "done"
    /\ Len(Pastes) <= Min(Len(template_meta.slots), Len(stickers))
    /\ pc = "slots" => i = Len(Pastes)
    /\ pc = "init" => canvas = <<>>

\* C19: every run goes Init, optional underlay, slot layering, optional
\* overlay, Done in that order, paints the template at most once, and reaches
\* Done (it is never aborted) after at most min(#slots, #stickers) pastes.
C19_PhasesReachDone == PhasesInOrder /\ pc # "raised"

(***************************************************************************)
(* Further properties of fit_sticker_to_slot (specification SpecFit)       *)
(***************************************************************************)
\* Python max(lo, min(hi, raw)) on rationals
Clamped(raw, lo, hi) ==
    LET capped == IF QLt(hi, raw) THEN hi ELSE raw
    IN  IF QLt(lo, capped) THEN capped ELSE lo

\* the cases of fit_sticker_to_slot for a sticker of non-zero size: face
\* normalization, whatever the fit_mode, when a face height and a face ratio
\* are given (strict: both given and non-zero), else the standard fit chosen by
\* fit_mode
FitCases(strict) ==
    (Returned("fit") /\ args.sticker.w # 0 /\ args.sticker.h # 0) =>
        LET slot == args.slot
            given == args.face_height # None /\ slot.desired_face_ratio # None
            nonzero == Get(args.face_height) # 0 /\ Get(slot.desired_face_ratio).num # 0
            face == given /\ (strict => nonzero)
            ratio == Get(slot.desired_face_ratio)
            face_scale == Clamped(Q(slot.height * ratio.num, ratio.den * Get(args.face_height)),
                                  slot.min_zoom, slot.max_zoom)
            contain_scale == Clamped(Q(9 * slot.height, 10 * args.sticker.h),
                                     slot.min_zoom, slot.max_zoom)
            by_w == Q(slot.width, args.sticker.w)
            by_h == Q(slot.height, args.sticker.h)
            cover_scale == IF QLt(by_w, by_h) THEN by_h ELSE by_w
        IN  /\ face => ret[1].branch = "face" /\ QEq(ret[1].scale, face_scale)
            /\ (~face /\ args.fit_mode = "contain") =>
                  ret[1].branch = "contain" /\ QEq(ret[1].scale, contain_scale)
            /\ (~face /\ args.fit_mode # "contain") =>
                  ret[1].branch = "cover" /\ QEq(ret[1].scale, cover_scale)

\* C20 as stated: whenever a face height is provided and desired_face_ratio is
\* set, the scale is the clamped face normalization for "cover" and "contain"
\* alike; otherwise the standard fit selected by fit_mode is used.
C20_FaceWhenProvided == FitCases(FALSE)

\* C20 amended: whenever a non-zero face height is provided and
\* desired_face_ratio is set to a non-zero value, the scale is
\* clamp(slot.height * desired_face_ratio / face_height, min_zoom, max_zoom)
\* for "cover" and "contain" alike; otherwise (a face height or ratio that is
\* absent or 0) the standard fit selected by fit_mode is used.
C20_FaceWhenNonZero == FitCases(TRUE)

\* fit_mode "cover" with a face: the face scale is applied, and it is not the
\* scale cover would have chosen
C20_Witness ==
    /\ Returned("fit")
    /\ args.fit_mode = "cover"
    /\ args.face_height = Some(1) /\ args.slot.desired_face_ratio = Some(Q(1, 2))
    /\ ret[1].branch = "face"
    /\ args.sticker = [w |-> 2, h |-> 4] /\ args.slot.width = 3 /\ args.slot.height = 2
    /\ QEq(ret[1].scale, QInt(1))

\* fit_sticker_to_slot returned an image
FitReturned == Returned("fit") /\ ~ret[1].raised

\* r is a nearest integer to the rational v
IsNearest(r, v) ==
    /\ 2 * (r * v.den - v.num) <= v.den
    /\ 2 * (v.num - r * v.den) <= v.den

\* r is int() of the binary64 product whose exact value is v >= 0: the integer
\* part of v, or one less than v when v is itself an integer
IsIntOfFloat(r, v) == r * v.den <= v.num /\ v.num <= (r + 1) * v.den

\* C21: the returned size is (round(sticker.width * scale),
\* round(sticker.height * scale)), each dimension the product rounded to the
\* nearest integer, for every sticker size and applied scale.
C21_SizeRounded ==
    FitReturned =>
        /\ IsNearest(ret[1].w, QMul(QInt(args.sticker.w), ret[1].scale))
        /\ IsNearest(ret[1].h, QMul(QInt(args.sticker.h), ret[1].scale))

\* what the code returns instead: (int(sticker.width * scale),
\* int(sticker.height * scale)), each dimension the floating-point product
\* truncated toward zero and never rounded up
FitSizeTruncated ==
    FitReturned =>
        /\ IsIntOfFloat(ret[1].w, QMul(QInt(args.sticker.w), ret[1].scale))
        /\ IsIntOfFloat(ret[1].h, QMul(QInt(args.sticker.h), ret[1].scale))

\* face-size normalization applies: a non-zero face height and a non-zero
\* desired_face_ratio
FaceApplies ==
    /\ args.face_height # None /\ Get(args.face_height) # 0
    /\ args.slot.desired_face_ratio # None /\ Get(args.slot.desired_face_ratio).num # 0

\* 90% of the slot height over the sticker height
HeightFill == Q(9 * args.slot.height, 10 * args.sticker.h)

\* C22: when processing_mode is not "frame" and face normalization does not
\* apply, the scale is clamp(0.90 * slot.height / sticker.height, min_zoom,
\* max_zoom); when the clamp is inactive the scaled height is 90% of the slot
\* height to the pixel (the integer part, or one below an integral 90%),
\* whatever the sticker's width and the slot's width.
C22_ContainHeightFill ==
    (Returned("fit") /\ processing_mode # "frame" /\ ~FaceApplies
        /\ args.sticker.w # 0 /\ args.sticker.h # 0) =>
        /\ QEq(ret[1].scale, Clamped(HeightFill, args.slot.min_zoom, args.slot.max_zoom))
        /\ (QLe(args.slot.min_zoom, HeightFill) /\ QLe(HeightFill, args.slot.max_zoom)) =>
              /\ QEq(ret[1].scale, HeightFill)
              /\ IsIntOfFloat(ret[1].h, Q(9 * args.slot.height, 10))

\* a wide sticker in a narrow slot, clamp inactive: 4x2 into 1x3 gives height
\* int(2.7) = 2
C22_Witness ==
    /\ FitReturned
    /\ processing_mode = "print"
    /\ ~FaceApplies
    /\ args.sticker = [w |-> 4, h |-> 2]
    /\ args.slot.width = 1 /\ args.slot.height = 3
    /\ QLt(args.slot.min_zoom, HeightFill) /\ QLt(HeightFill, args.slot.max_zoom)
    /\ ret[1].h = 2 /\ ret[1].w = 5

\* the larger of slot.width / sticker.width and slot.height / sticker.height
CoverFill ==
    LET by_w == Q(args.slot.width, args.sticker.w)
        by_h == Q(args.slot.height, args.sticker.h)
    IN  IF QLt(by_w, by_h) THEN by_h ELSE by_w

\* the part of C23 about the scale alone: max of the two ratios, unclamped
CoverScaleUnclamped ==
    (Returned("fit") /\ processing_mode = "frame" /\ ~FaceApplies
        /\ args.sticker.w # 0 /\ args.sticker.h # 0) =>
        ret[1].branch = "cover" /\ QEq(ret[1].scale, CoverFill)

\* C23: when processing_mode is "frame" and face normalization does not apply,
\* the scale is max(slot.width / sticker.width, slot.height / sticker.height)
\* with no zoom clamp, so the scaled sticker is at least as wide and as tall as
\* the slot and matches it exactly in at least one dimension.
C23_CoverFillsSlot ==
    (Returned("fit") /\ processing_mode = "frame" /\ ~FaceApplies
        /\ args.sticker.w # 0 /\ args.sticker.h # 0) =>
        /\ ret[1].branch = "cover" /\ QEq(ret[1].scale, CoverFill)
        /\ ret[1].w >= args.slot.width
        /\ ret[1].h >= args.slot.height
        /\ (ret[1].w = args.slot.width \/ ret[1].h = args.slot.height)

(***************************************************************************)
(* Landmarks and placement in compose_final runs (specification Spec)      *)
(***************************************************************************)
\* the fit call of loop index k
FitCallOf(k) == CHOOSE c \in {FitCalls[j] : j \in 1 .. Len(FitCalls)} : c.k = k

\* C24: for every sticker with landmarks, the landmarks handed to
\* calculate_placement are the original center_x, center_y, eye_y and
\* face_height, each multiplied by the one factor scaled width / original
\* width of the fit of that sticker (and made an int), confidence unchanged;
\* a sticker without landmarks hands on none.
C24_LandmarksRescaled ==
    \A j \in 1 .. Len(PlaceCalls) :
        LET k == PlaceCalls[j].k
            orig == stickers[k + 1].landmarks
            scaled == PlaceCalls[j].info.landmarks
            orig_w == stickers[k + 1].image.w
            scaled_w == FitCallOf(k).info.w
        IN  /\ scaled = None <=> orig = None
            /\ (scaled # None /\ orig_w > 0) =>
                  /\ \A point \in {"center_x", "center_y", "eye_y", "face_height"} :
                        IsIntOfFloat(Get(scaled)[point],
                                     Q(Get(orig)[point] * scaled_w, orig_w))
                  /\ Get(scaled).confidence = Get(orig).confidence

\* the 40x80 face sticker fitted to 120x240: the landmarks (20, 30, 25, 10)
\* reach placement as (60, 90, 75, 30)
C24_Witness ==
    /\ pc = "done"
    /\ \E j \in 1 .. Len(PlaceCalls) :
          /\ stickers[PlaceCalls[j].k + 1] = FaceSticker
          /\ FitCallOf(PlaceCalls[j].k).info.w = 120
          /\ PlaceCalls[j].info.landmarks = Some(Landmarks(60, 90, 75, 30, Q(9, 10)))

(***************************************************************************)
(* Further properties of calculate_placement (specification SpecPlace)     *)
(***************************************************************************)
\* the pixel target of an anchor value on a dimension: a ratio in [0, 1] times
\* the dimension, any other value as pixels, an absent one the default
TargetOf(val, dimension_size, default) ==
    IF val = None THEN default
    ELSE IF InRatioRange(Get(val))
    THEN (Get(val).num * dimension_size) \div Get(val).den
    ELSE Trunc(Get(val))

\* the face point of the landmarks under the anchor mode
FacePointX == Get(args.landmarks).center_x
FacePointY ==
    IF args.anchor_mode = "eyes" THEN Get(args.landmarks).eye_y
    ELSE Get(args.landmarks).center_y

TargetX == TargetOf(args.slot.anchor_target_x, args.slot.width, args.slot.width \div 2)
TargetY == TargetOf(args.slot.anchor_target_y, args.slot.height,
                    (30 * args.slot.height) \div 100)

\* the overflow clamp leaves the raw position alone
ClampInactiveX ==
    LET raw == args.slot.x + TargetX - FacePointX IN LowerX <= raw /\ raw <= UpperX
ClampInactiveY ==
    LET raw == args.slot.y + TargetY - FacePointY IN LowerY <= raw /\ raw <= UpperY

\* C25: in the face-anchored branch, whenever the overflow clamp is inactive,
\* the face point (center_x, and eye_y under anchor_mode "eyes", else
\* center_y) lands on slot origin + target: x + face_x = slot.x + target_x and
\* y + face_y = slot.y + target_y, an absent target being the pixel
\* (slot.width // 2, int(slot.height * 0.30)); the anchor_mode enters only
\* through face_y.
C25_FaceOnTarget ==
    (Returned("place") /\ ret[1].branch = "face") =>
        /\ ClampInactiveX => ret[1].x + FacePointX = args.slot.x + TargetX
        /\ ClampInactiveY => ret[1].y + FacePointY = args.slot.y + TargetY

\* anchor_mode "eyes", default target, clamp inactive: the eye line, not the
\* face centre, sits on the target
C25_Witness ==
    /\ Returned("place") /\ ret[1].branch = "face"
    /\ args.anchor_mode = "eyes"
    /\ args.slot.anchor_target_y = None
    /\ Get(args.landmarks).eye_y # Get(args.landmarks).center_y
    /\ ClampInactiveX /\ ClampInactiveY
    /\ ret[1].y + Get(args.landmarks).eye_y = args.slot.y + ((30 * args.slot.height) \div 100)
    /\ ret[1].x + Get(args.landmarks).center_x = args.slot.x + (args.slot.width \div 2)

\* r is the floor of the rational v
IsFloorOf(r, v) == r * v.den <= v.num /\ v.num < (r + 1) * v.den

\* the coordinates of calculate_placement, every fractional term made an
\* integer by truncation toward zero; the half difference of the fallback x
\* by truncation toward zero too, or (floored) by floor division
PlacementCases(floored) ==
    Returned("place") =>
        LET slot == args.slot
            half == Q(slot.width - args.sticker.w, 2)
            padding == (2 * slot.height) \div 100
            raw_x == slot.x + TargetX - FacePointX
            raw_y == slot.y + TargetY - FacePointY
        IN  IF ret[1].branch = "face"
            THEN /\ ret[1].x = Max(LowerX, Min(UpperX, raw_x))
                 /\ ret[1].y = Max(LowerY, Min(UpperY, raw_y))
            ELSE /\ IF floored THEN IsFloorOf(ret[1].x - slot.x, half)
                               ELSE IsTruncationOf(ret[1].x - slot.x, half)
                 /\ ret[1].y = Max(slot.y, slot.y + slot.height - args.sticker.h - padding)

\* C26 as stated: the coordinates are obtained by truncation toward zero in
\* both branches, also when an intermediate value is negative, as the
\* fallback x of a sticker wider than the slot by an odd number of pixels.
C26_TruncatedTowardZero == PlacementCases(FALSE)

\* C26 amended: the coordinates are integers, every fractional term (anchor
\* target, overflow bound, bottom padding) truncated toward zero, except the
\* fallback x, which uses floor division: x = slot.x +
\* floor((slot.width - sticker_w) / 2), so a sticker wider than the slot by an
\* odd number of pixels is placed half a pixel further left, not toward zero.
C26_FallbackXFloored == PlacementCases(TRUE)

\* a 5-wide sticker in a 4-wide slot at x = 0: the fallback x is -1, not 0
C26_Witness ==
    /\ Returned("place") /\ ret[1].branch = "bottom"
    /\ args.slot.x = 0 /\ args.slot.width = 4 /\ args.sticker.w = 5
    /\ ret[1].x = -1

(***************************************************************************)
(* Sizes returned by fit_sticker_to_slot (specification SpecFit)           *)
(***************************************************************************)
\* C27: for every sticker of positive width and height and every slot with
\* min_zoom <= max_zoom, fit_sticker_to_slot returns an image at least 1 wide
\* and 1 high: the resize is never to a zero size and does not fail.
C27_FitNeverEmpty ==
    (Returned("fit") /\ args.sticker.w > 0 /\ args.sticker.h > 0
        /\ QLe(args.slot.min_zoom, args.slot.max_zoom)) =>
        /\ ~ret[1].raised
        /\ ret[1].w >= 1
        /\ ret[1].h >= 1

(***************************************************************************)
(* Fit and placement of one slot step (specification Spec)                 *)
(***************************************************************************)
\* C28: in every slot step the face-size-normalized scale is applied only if
\* the same landmarks are used for face-anchored placement: whenever the
\* placement is the bottom-center fallback, the sticker was scaled by the
\* standard fit.
C28_FitAndPlacementAgree ==
    \A j \in 1 .. Len(PlaceCalls) :
        FitCallOf(PlaceCalls[j].k).info.branch = "face"
            => PlaceCalls[j].info.placed.branch = "face"

(***************************************************************************)
(* The anchor from the template editor to the compositor (SpecConfig)      *)
(***************************************************************************)
\* C29: for every slot width and height and every editor anchor in [0, 1],
\* the pixel target that update_template_config stores,
\* (int(slot.width * anchorX), int(slot.height * anchorY)), is what
\* resolve_anchor_to_pixels gives for the loaded slot.
C29_AnchorRoundTrip ==
    (fn = "config" /\ Len(ret) = 3) =>
        \A k \in 1 .. Len(args.config.slots) :
            LET edited == args.config.slots[k]
                stored == Get(Get(Get(ret[1]).slots)[k].anchor)
                stored_x == Get(stored.targetX).num
                stored_y == Get(stored.targetY).num
            IN  /\ IsIntOfFloat(stored_x, QMul(QInt(edited.width), edited.anchorX))
                /\ IsIntOfFloat(stored_y, QMul(QInt(edited.height), edited.anchorY))
                /\ ret[3][k] = <<Some(stored_x), Some(stored_y)>>

(***************************************************************************)
(* Generation counts of several workers (SpecStats)                        *)
(***************************************************************************)
RECURSIVE SumOf(_)
SumOf(counts) ==
    IF DOMAIN counts = {} THEN 0
    ELSE LET k == CHOOSE key \in DOMAIN counts : TRUE
         IN  counts[k] + SumOf([key \in DOMAIN counts \ {k} |-> counts[key]])

RECURSIVE CallsMade(_)
CallsMade(ws) ==
    IF ws = {} THEN 0
    ELSE LET w == CHOOSE x \in ws : TRUE IN workers[w].made + CallsMade(ws \ {w})

\* every worker is constructed and no call is under way
Quiescent == \A w \in Workers : workers[w].pc = "ready"

\* the counts of one stats dict add up
AddsUp(stats) ==
    /\ stats.total_generated = SumOf(stats.by_mode)
    /\ stats.total_generated = SumOf(stats.by_template)

\* C30: when several StatsService instances share one stats file and every
\* increment_generation call made has completed, the file holds stats whose
\* total_generated is the number of calls made by all instances and is the
\* sum of the by_mode counts and the sum of the by_template counts.
C30_NoCountLost ==
    Quiescent =>
        /\ stats_file.state = "ok"
        /\ Get(stats_file.stats).total_generated = CallsMade(Workers)
        /\ AddsUp(Get(stats_file.stats))

\* what is kept: the counts of every instance, and of the file, add up
StatsAddUp ==
    /\ \A w \in Workers : IsSome(workers[w].stats) => AddsUp(Get(workers[w].stats))
    /\ stats_file.state = "ok" => AddsUp(Get(stats_file.stats))

====
